---- MODULE Spec2Model ----
(***************************************************************************)
(* House-cusp computation of swiss-holoscope-lambda-api                    *)
(* (src/src/calculate_houses.py, with get_zodiac_sign_jp of                *)
(* src/src/calculate_planets.py).                                          *)
(*                                                                         *)
(* Angles are integers counted in ticks of 0.05 degrees (the smallest step *)
(* the code uses, sample_step), so 360 degrees = 7200 ticks.  The values   *)
(* the code gets from libm and Skyfield (sin, cos, tan, atan2, acos, gast) *)
(* are fixed-point tables rounded to compass points; every other           *)
(* computation (modulo, windows, scans, bisection, secant, mirroring,      *)
(* fallback, result assembly) is carried out as the code carries it out.   *)
(***************************************************************************)
EXTENDS Integers, Sequences, FiniteSets, TLC

VARIABLES
    env_HOUSE_ENGINE,   \* os.environ["HOUSE_ENGINE"], process-wide
    pc,                 \* position of the running calculate_houses call
    args,               \* arguments of the running call
    eph,                \* the local eph/ts pair: "none" or "loaded"
    asc_longitude,      \* Optional
    mc_longitude,       \* Optional
    c11, c12, c3, c2,   \* Optional solved cusps
    houses,             \* the list of house entries built so far
    result,             \* the dict returned, <<>> while there is none
    exc,                \* the exception that left the call, "" if none
    stdout,             \* the lines printed about the Swiss failure and the solves
    requests,           \* the lambda_handler invocations running in the process
    solver,             \* the frame of one solve, advanced one loop pass at a time
    service             \* the frame of HoloscopeService.create after the house call

vars == <<env_HOUSE_ENGINE, pc, args, eph, asc_longitude, mc_longitude,
          c11, c12, c3, c2, houses, result, exc, stdout, requests, solver, service>>

----------------------------------------------------------------------------
(* Units and program constants (ticks of 0.05 degrees)                     *)

FULL == 7200
HALF == 3600
SECTOR == 600
InitStep == 10
FineStep == 2
SampleStep == 1
BisectIters == 30
SecantIters == 20

(* Optional[float]: None is <<>>, a value x is <<x>> *)
None == <<>>
Some(x) == <<x>>
IsNone(o) == o = <<>>
Val(o) == o[1]

Abs(x) == IF x < 0 THEN -x ELSE x

----------------------------------------------------------------------------
(* get_zodiac_sign_jp                                                      *)

zodiac_signs_jp ==
    << "ohitsuji", "oushi", "futago", "kani", "shishi", "otome",
       "tenbin", "sasori", "ite", "yagi", "mizugame", "uo" >>

(* a variant that rounds the quotient toward zero *)
get_zodiac_sign_truncating(longitude_deg) ==
    LET quotient == IF longitude_deg < 0 THEN -((-longitude_deg) \div SECTOR)
                    ELSE longitude_deg \div SECTOR
    IN  zodiac_signs_jp[(quotient % 12) + 1]

get_zodiac_sign_jp(longitude_deg) ==
    LET index == (longitude_deg \div SECTOR) % 12
    IN  zodiac_signs_jp[index + 1]

----------------------------------------------------------------------------
(* Helpers of the Placidus branch                                          *)

normalize_deg(x) ==
    LET v == x % FULL
    IN  IF v < 0 THEN v + FULL ELSE v

circ_diff(a, b) == ((a - b + HALF) % FULL) - HALF

(* libm, rounded: sine and cosine in tenths at the nearest 45 degree point *)
Octant(a) == ((normalize_deg(a) + 450) \div 900) % 8
sin_table == << 0, 7, 10, 7, 0, -7, -10, -7 >>
cos_table == << 10, 7, 0, -7, -10, -7, 0, 7 >>
sin10(a) == sin_table[Octant(a) + 1]
cos10(a) == cos_table[Octant(a) + 1]

(* math.atan2 in ticks, rounded to the nearest 22.5 degrees, in (-180,180] *)
atan2_q1(y, x) ==
    IF 5 * y < x THEN 0
    ELSE IF 3 * y < 2 * x THEN 450
    ELSE IF 2 * y < 3 * x THEN 900
    ELSE IF y < 5 * x THEN 1350
    ELSE 1800

atan2(y, x) ==
    IF x = 0 /\ y = 0 THEN 0
    ELSE LET a == atan2_q1(Abs(y), Abs(x))
             b == IF x < 0 THEN HALF - a ELSE a
         IN  IF y < 0 THEN -b ELSE b

(* math.tan(math.radians(latitude)) in hundredths; about 1.6e16 at 90 *)
tan100(latitude) ==
    IF latitude = 0 THEN 0
    ELSE IF latitude = 35 THEN 70
    ELSE IF latitude = 70 THEN 275
    ELSE IF latitude = 90 THEN 10000000
    ELSE -5729

(* obliquity of date: cos and sin of about 23.44 degrees, in tenths *)
cos_eps10 == 9
sin_eps10 == 4

(* ra_dec_from_lambda: <<alpha, delta>> in ticks.  alpha differs from    *)
(* lambda by at most 2.5 degrees, with the sign of -sin(2 lambda); delta  *)
(* is asin(sin(eps) sin(lambda)): 0, 16.3 or 23.45 degrees in size         *)
alpha_minus_lambda == << 0, -50, 0, 50, 0, -50, 0, 50 >>
delta_table == << 0, 326, 469, 326, 0, -326, -469, -326 >>

ra_dec_from_lambda(lambda_deg) ==
    LET o == Octant(lambda_deg) + 1
    IN  << normalize_deg(lambda_deg + alpha_minus_lambda[o]), delta_table[o] >>

(* math.tan of a declination, in hundredths *)
tan_delta100(delta_deg) ==
    IF delta_deg = 0 THEN 0
    ELSE IF delta_deg = 326 THEN 29
    ELSE IF delta_deg = 469 THEN 43
    ELSE IF delta_deg = -326 THEN -29
    ELSE -43

(* math.acos of val/10000, to the nearest quarter, in ticks *)
acos_table == << 3600, 2772, 2400, 2088, 1800, 1512, 1200, 828, 0 >>
acos_ticks(val) == acos_table[((val + 11250) \div 2500) + 1]

rising_hour_angle(delta_deg, phi_deg) ==
    LET val == -(tan100(phi_deg) * tan_delta100(delta_deg))
    IN  IF val < -10000 \/ val > 10000 THEN None ELSE Some(acos_ticks(val))

(* The variables a nested solver function closes over: n_frac as n_num/3, *)
(* base, use_descension, the latitude of the call, and the window and     *)
(* step of the solve                                                       *)
closure(n_num, base_ramc, win_start, win_end, step, use_descension, latitude) ==
    [ n_num |-> n_num, base |-> normalize_deg(base_ramc),
      win_start |-> win_start, win_end |-> win_end, step |-> step,
      use_descension |-> use_descension, latitude |-> latitude ]

(* F of solve_lambda_by_OA and F_val of solve_with_fallback (the same     *)
(* body): every H0 of acos_ticks is a multiple of 3                        *)
F(lam_deg, sign_factor, cl) ==
    LET ad == ra_dec_from_lambda(lam_deg)
        h0 == rising_hour_angle(ad[2], cl.latitude)
    IN  IF IsNone(h0) THEN None
        ELSE LET x_val == IF cl.use_descension
                          THEN normalize_deg(ad[1] + Val(h0))
                          ELSE normalize_deg(ad[1] - Val(h0))
                 lhs == circ_diff(cl.base, x_val)
                 rhs == (sign_factor * cl.n_num * Val(h0)) \div 3
             IN  Some(lhs - rhs)

(* iter_window: the k-th angle yielded, and how many are yielded *)
window_angle(start, step, k) == normalize_deg(start + k * step)

iter_window_len(start, end, step) ==
    LET end_n == normalize_deg(end)
        stop == { k \in 2 .. (FULL \div step) + 2 :
                    2 * Abs(circ_diff(window_angle(start, step, k), end_n)) <= step }
    IN  CHOOSE k \in stop : \A j \in stop : k <= j

(* the bisection loop of solve_lambda_by_OA; mid is kept on the tick grid *)
RECURSIVE bisect(_, _, _, _, _, _)
bisect(lo, hi, flo, iters, sign_factor, cl) ==
    IF iters = 0 THEN normalize_deg((lo + hi) \div 2)
    ELSE LET mid == (lo + hi) \div 2
             fmid == F(mid, sign_factor, cl)
         IN  IF IsNone(fmid) THEN bisect(mid, hi, flo, iters - 1, sign_factor, cl)
             ELSE IF Val(fmid) = 0 THEN normalize_deg(mid)
             ELSE IF flo * Val(fmid) <= 0
             THEN bisect(lo, mid, flo, iters - 1, sign_factor, cl)
             ELSE bisect(mid, hi, Val(fmid), iters - 1, sign_factor, cl)

(* the test of the scan loop on two consecutive samples: both have a     *)
(* value and one of them is zero or their signs differ                    *)
crossing(prev_val, val) ==
    /\ ~IsNone(prev_val)
    /\ ~IsNone(val)
    /\ \/ Val(prev_val) = 0
       \/ Val(val) = 0
       \/ Val(prev_val) * Val(val) < 0

crossing_at(k, sign_factor, cl) ==
    crossing(F(window_angle(cl.win_start, cl.step, k - 1), sign_factor, cl),
             F(window_angle(cl.win_start, cl.step, k), sign_factor, cl))

(* the first k in lo .. hi at which the scan loop returns, 0 if it never does *)
RECURSIVE first_crossing(_, _, _, _)
first_crossing(lo, hi, sign_factor, cl) ==
    IF lo > hi THEN 0
    ELSE IF lo = hi THEN IF crossing_at(lo, sign_factor, cl) THEN lo ELSE 0
    ELSE LET left == first_crossing(lo, (lo + hi) \div 2, sign_factor, cl)
         IN  IF left # 0 THEN left
             ELSE first_crossing(((lo + hi) \div 2) + 1, hi, sign_factor, cl)

(* what the scan loop returns at a crossing *)
root_between(prev_lam, prev_val, lam, val, sign_factor, cl) ==
    IF prev_val = 0 THEN prev_lam
    ELSE IF val = 0 THEN lam
    ELSE bisect(prev_lam, lam, prev_val, BisectIters, sign_factor, cl)

root_at(k, sign_factor, cl) ==
    IF k = 0 THEN None
    ELSE Some(root_between(
            window_angle(cl.win_start, cl.step, k - 1),
            Val(F(window_angle(cl.win_start, cl.step, k - 1), sign_factor, cl)),
            window_angle(cl.win_start, cl.step, k),
            Val(F(window_angle(cl.win_start, cl.step, k), sign_factor, cl)),
            sign_factor, cl))

scan(sign_factor, cl) ==
    root_at(first_crossing(2, iter_window_len(cl.win_start, cl.win_end, cl.step),
                           sign_factor, cl),
            sign_factor, cl)

solve_lambda_by_OA(n_num, base_ramc, sign_factor, win_start, win_end, init_step_deg, use_descension, latitude) ==
    scan(sign_factor, closure(n_num, base_ramc, win_start, win_end, init_step_deg,
                              use_descension, latitude))

(* solve_with_fallback, sampling loop: the angles win_start + k*step for  *)
(* k = 0 .. n-1, where the loop breaks once the next angle is within half *)
(* a step of win_end or guard exceeds int(360/sample_step) + 5            *)
fallback_samples(win_start, win_end, sample_step) ==
    LET end_n == normalize_deg(win_end)
        guard_max == (FULL \div sample_step) + 5
        stop == { k \in 1 .. guard_max + 1 :
                    \/ 2 * Abs(circ_diff(window_angle(win_start, sample_step, k), end_n)) <= sample_step
                    \/ k > guard_max }
    IN  CHOOSE k \in stop : \A j \in stop : k <= j

(* best of two (absF, lam, sign) candidates in loop order: the later one  *)
(* replaces the earlier only when its absF is strictly smaller            *)
better(first, second) ==
    IF IsNone(first) THEN second
    ELSE IF IsNone(second) THEN first
    ELSE IF Val(second)[1] < Val(first)[1] THEN second ELSE first

candidate(fv, angle, s) ==
    IF IsNone(fv) THEN None ELSE Some(<< Abs(Val(fv)), angle, s >>)

(* one pass of the while loop: sign_factor_opts in the order +1, -1 *)
sample_at(angle, cl) ==
    better(candidate(F(angle, 1, cl), angle, 1),
           candidate(F(angle, -1, cl), angle, -1))

(* best over the samples lo .. hi *)
RECURSIVE best_sample(_, _, _)
best_sample(lo, hi, cl) ==
    IF lo = hi THEN sample_at(window_angle(cl.win_start, cl.step, lo), cl)
    ELSE better(best_sample(lo, (lo + hi) \div 2, cl),
                best_sample(((lo + hi) \div 2) + 1, hi, cl))

(* float division of the secant step, kept on the tick grid *)
quotient(a, b) == IF b < 0 THEN (-a) \div (-b) ELSE a \div b

(* lam2 of the secant loop: clipped to the middle when outside the window *)
clip(raw, cl) ==
    IF circ_diff(raw, cl.win_start) < 0 \/ circ_diff(cl.win_end, raw) < 0
    THEN normalize_deg((cl.win_start + cl.win_end) \div 2)
    ELSE raw

(* the secant loop of solve_with_fallback: returns lam1 *)
RECURSIVE secant(_, _, _, _, _, _, _)
secant(lam0, f0, lam1, f1, iters, s0, cl) ==
    IF iters = 0 \/ f1 - f0 = 0 THEN lam1
    ELSE LET lam2 == clip(normalize_deg(lam1 - quotient(f1 * (lam1 - lam0), f1 - f0)), cl)
             f2 == F(lam2, s0, cl)
         IN  IF IsNone(f2) THEN lam1
             ELSE IF Val(f2) = 0 THEN lam2
             ELSE secant(lam1, f1, lam2, Val(f2), iters - 1, s0, cl)

(* lam1, f0 and f1 of solve_with_fallback, then the secant loop *)
secant_from(lam0, f0, lam1, f1, s0, cl) ==
    IF IsNone(f0) \/ IsNone(f1) THEN lam0
    ELSE secant(lam0, Val(f0), lam1, Val(f1), SecantIters, s0, cl)

secant_start(lam0, s0, cl) ==
    secant_from(lam0, F(lam0, s0, cl), normalize_deg(lam0 + cl.step),
                F(normalize_deg(lam0 + cl.step), s0, cl), s0, cl)

(* solve_with_fallback after the sampling loop *)
refine(best, cl) ==
    IF IsNone(best) THEN None
    ELSE Some(secant_start(Val(best)[2], Val(best)[3], cl))

sample_and_refine(cl) ==
    refine(best_sample(0, fallback_samples(cl.win_start, cl.win_end, cl.step) - 1, cl), cl)

solve_with_fallback(n_num, base_ramc, win_start, win_end, use_descension, sample_step, latitude) ==
    sample_and_refine(closure(n_num, base_ramc, win_start, win_end, sample_step,
                              use_descension, latitude))

----------------------------------------------------------------------------
(* Inputs                                                                  *)

(* how many RAMC values (instants) a call may be given *)
NumRamc == 3

Systems == { "placidus", "equal", "koch", "whole", "EQUAL" }
Latitudes == { 0, 35, 70, 91 }
Ramcs == { (k * FULL) \div NumRamc : k \in 0 .. NumRamc - 1 }
EngineValues == { "SKYFIELD", "SWISS" }

(* str.lower of a system token *)
lower(system) == IF system = "EQUAL" THEN "equal" ELSE system

(* os.environ.get("HOUSE_ENGINE", "SKYFIELD").strip().upper() == "SWISS" *)
engine_is_swiss(env) == (IF env = "unset" THEN "SKYFIELD" ELSE env) = "SWISS"

sign_entry(lon) == [ sign |-> get_zodiac_sign_jp(lon), longitude |-> lon ]
house_entry(i, lon) == [ number |-> i, sign |-> get_zodiac_sign_jp(lon), longitude |-> lon ]

NoResult == [ ascendant |-> None, descendant |-> None, mc |-> None, ic |-> None, houses |-> << >> ]

----------------------------------------------------------------------------
(* Angle formulas of the Skyfield path                                     *)

(* mc_longitude: atan2(sin(RAMC), cos(RAMC) cos(eps)) % 360 *)
mc_formula(ramc) == atan2(sin10(ramc) * 10, cos10(ramc) * cos_eps10) % FULL

(* asc_numerator and asc_denominator, in thousandths *)
asc_numerator(ramc) == -(cos10(ramc) * 100)
asc_denominator(ramc, latitude) ==
    cos_eps10 * sin10(ramc) * 10 + tan100(latitude) * sin_eps10

(* a variant that also rejects a latitude outside [-90,90] *)
asc_raises_or_invalid(ramc, latitude) ==
    asc_denominator(ramc, latitude) = 0 \/ latitude < -90 \/ latitude > 90

(* asc_tan = asc_numerator / asc_denominator raises ZeroDivisionError *)
asc_raises(ramc, latitude) == asc_denominator(ramc, latitude) = 0

(* atan2, +360 when negative, then the flip by 180 *)
asc_formula(ramc, latitude) ==
    LET a == atan2(asc_numerator(ramc), asc_denominator(ramc, latitude))
        b == IF a < 0 THEN a + FULL ELSE a
    IN  (b + HALF) % FULL

----------------------------------------------------------------------------
(* Swiss Ephemeris path: swe.houses is the library's own computation; its  *)
(* cusps are taken here as ASC/MC with trisected quadrants (P, K) or equal *)
(* sectors (E), in [0,360)                                                 *)

system_map(system) ==
    CASE lower(system) = "placidus" -> "P"
      [] lower(system) = "equal" -> "E"
      [] lower(system) = "koch" -> "K"
      [] OTHER -> "P"

swe_ascmc(ramc, latitude) ==
    LET a == atan2(asc_numerator(ramc), asc_denominator(ramc, latitude))
    IN  << (a + HALF) % FULL, mc_formula(ramc) >>

swe_cusp(ramc, latitude, swe_system, i) ==
    LET a == swe_ascmc(ramc, latitude)[1]
        m == swe_ascmc(ramc, latitude)[2]
        q == ((m + HALF - a) % FULL) \div 3
        r == ((a - m) % FULL) \div 3
    IN  IF swe_system = "E" THEN (a + (i - 1) * SECTOR) % FULL
        ELSE CASE i = 1 -> a
               [] i = 2 -> (a + q) % FULL
               [] i = 3 -> (a + 2 * q) % FULL
               [] i = 4 -> (m + HALF) % FULL
               [] i = 5 -> (m + r + HALF) % FULL
               [] i = 6 -> (m + 2 * r + HALF) % FULL
               [] i = 7 -> (a + HALF) % FULL
               [] i = 8 -> (a + q + HALF) % FULL
               [] i = 9 -> (a + 2 * q + HALF) % FULL
               [] i = 10 -> m
               [] i = 11 -> (m + r) % FULL
               [] OTHER -> (m + 2 * r) % FULL

(* the tuple swe.houses returns: 12 cusps, or 13 with a leading 0.0 *)
swe_houses_cusps(ramc, latitude, swe_system, len) ==
    IF len = 12
    THEN [ i \in 1 .. 12 |-> swe_cusp(ramc, latitude, swe_system, i) ]
    ELSE [ i \in 1 .. 13 |-> IF i = 1 THEN 0 ELSE swe_cusp(ramc, latitude, swe_system, i - 1) ]

(* houses_list of the Swiss path: cusps[idx], idx = i-1 when zero_based *)
swiss_houses_list(cusps) ==
    LET zero_based == Len(cusps) = 12
    IN  [ i \in 1 .. 12 |->
            LET idx == IF zero_based THEN i - 1 ELSE i
            IN  house_entry(i, cusps[idx + 1] % FULL) ]

swiss_result(ascmc, cusps) ==
    LET asc == ascmc[1] % FULL
        mc == ascmc[2] % FULL
        dc == (asc + HALF) % FULL
        ic == (mc + HALF) % FULL
    IN  [ ascendant |-> sign_entry(asc), descendant |-> sign_entry(dc),
          mc |-> sign_entry(mc), ic |-> sign_entry(ic),
          houses |-> swiss_houses_list(cusps) ]

----------------------------------------------------------------------------
(* Cusps of the Skyfield path                                              *)

(* a variant that starts the sectors one house late *)
equal_cusp_shifted(asc, number) == (asc + number * SECTOR) % FULL

(* equal: (asc_longitude + i * 30) % 360 for i = 0 .. 11, house i + 1 *)
equal_cusp(asc, number) == (asc + (number - 1) * SECTOR) % FULL

(* a variant that takes cusps 4 and 10 from ASC as well *)
koch_cusps_equal(asc, mc) == [ i \in 1 .. 12 |-> (asc + (i - 1) * SECTOR) % FULL ]

(* koch: the house_cusps list *)
koch_cusps(asc, mc) ==
    << asc,
       (asc + SECTOR) % FULL,
       (asc + 2 * SECTOR) % FULL,
       (mc + HALF) % FULL,
       (asc + 4 * SECTOR) % FULL,
       (asc + 5 * SECTOR) % FULL,
       (asc + HALF) % FULL,
       (asc + 7 * SECTOR) % FULL,
       (asc + 8 * SECTOR) % FULL,
       mc,
       (asc + 10 * SECTOR) % FULL,
       (asc + 11 * SECTOR) % FULL >>

(* a variant whose else branch is Equal and Placidus is named *)
branch_strict(system) ==
    IF system = "placidus" THEN "placidus"
    ELSE IF system = "koch" THEN "koch"
    ELSE "equal"

(* which branch of the if/elif/else on system runs *)
branch(system) ==
    IF system = "equal" THEN "equal"
    ELSE IF system = "koch" THEN "koch"
    ELSE "placidus"

(* win_ccw *)
win_ccw(start, end) == << normalize_deg(start), normalize_deg(end) >>

(* a variant that never mirrors *)
mirror_skipped(c) == None

(* the antipode written into cv_map when the solved cusp is not None *)
mirror(c) == IF IsNone(c) THEN None ELSE Some(normalize_deg(Val(c) + HALF))

(* a variant that leaves the four angles out of the map *)
cv_map_unanchored(asc, mc, s11, s12, s3, s2) ==
    [ i \in 1 .. 12 |->
        CASE i = 2 -> s2
          [] i = 3 -> s3
          [] i = 5 -> mirror(s11)
          [] i = 6 -> mirror(s12)
          [] i = 8 -> mirror(s2)
          [] i = 9 -> mirror(s3)
          [] i = 11 -> s11
          [] i = 12 -> s12
          [] OTHER -> None ]

(* cv_map after the mirror step; a key that is absent reads as None *)
cv_map(asc, mc, s11, s12, s3, s2) ==
    [ i \in 1 .. 12 |->
        CASE i = 1 -> Some(normalize_deg(asc))
          [] i = 2 -> s2
          [] i = 3 -> s3
          [] i = 4 -> Some(normalize_deg(mc + HALF))
          [] i = 5 -> mirror(s11)
          [] i = 6 -> mirror(s12)
          [] i = 7 -> Some(normalize_deg(asc + HALF))
          [] i = 8 -> mirror(s2)
          [] i = 9 -> mirror(s3)
          [] i = 10 -> Some(normalize_deg(mc))
          [] i = 11 -> s11
          [] OTHER -> s12 ]

(* a variant without the normalisation *)
equal_fallback_unwrapped(asc, i) == asc + i * SECTOR

(* equal_fallback[i], i = 0 .. 11 *)
equal_fallback(asc, i) == normalize_deg(asc + i * SECTOR)

(* a variant that indexes equal_fallback by the house number *)
number_to_long_offset(cv, asc, i) ==
    IF IsNone(cv[i]) THEN equal_fallback(asc, i % 12)
    ELSE normalize_deg(Val(cv[i]))

(* number_to_long[i]: the value of cv_map, or the Equal value when None *)
number_to_long(cv, asc, i) ==
    IF IsNone(cv[i]) THEN equal_fallback(asc, (i - 1) % 12)
    ELSE normalize_deg(Val(cv[i]))

(* a variant without the modulo *)
opposite_unwrapped(lon) == lon + HALF

(* the antipode used for dc_longitude and ic_longitude *)
opposite(lon) == (lon + HALF) % FULL

build_result(asc, mc, hs) ==
    [ ascendant |-> sign_entry(asc), descendant |-> sign_entry(opposite(asc)),
      mc |-> sign_entry(mc), ic |-> sign_entry(opposite(mc)), houses |-> hs ]

----------------------------------------------------------------------------
(* The state machine: one calculate_houses call at a time in the process   *)

(* no calculate_houses call is running *)
no_call ==
    /\ pc = "idle"
    /\ args = [ system |-> "placidus", latitude |-> 0, ramc |-> 0 ]
    /\ eph = "none"
    /\ asc_longitude = None
    /\ mc_longitude = None
    /\ c11 = None /\ c12 = None /\ c3 = None /\ c2 = None
    /\ houses = << >>
    /\ result = NoResult
    /\ exc = ""
    /\ stdout = << >>

(* no handler, no single-stepped solve and no create call is running *)
NoRequests == << >>
NoSolve == [ pc |-> "idle" ]
NoService == [ pc |-> "idle" ]

Init ==
    /\ env_HOUSE_ENGINE = "unset"
    /\ no_call
    /\ requests = NoRequests
    /\ solver = NoSolve
    /\ service = NoService

locals == << asc_longitude, mc_longitude, c11, c12, c3, c2, houses, result, exc >>

(* the caller sets os.environ['HOUSE_ENGINE'] before the call *)
SetEngine(v) ==
    /\ pc = "idle"
    /\ env_HOUSE_ENGINE' = v
    /\ UNCHANGED << pc, args, eph, locals, stdout, requests, solver, service >>

(* calculate_houses(dt_utc, latitude, longitude, eph=, ts=, system=) *)
Call(system, latitude, ramc, eph_arg) ==
    /\ pc = "idle"
    /\ args' = [ system |-> system, latitude |-> latitude, ramc |-> ramc ]
    /\ eph' = eph_arg
    /\ pc' = "engine"
    /\ UNCHANGED << requests, solver, service, env_HOUSE_ENGINE, locals, stdout >>

(* Swiss path, no exception: the result is returned from inside the try *)
SwissReturn(len) ==
    /\ pc = "engine"
    /\ engine_is_swiss(env_HOUSE_ENGINE)
    /\ LET swe_system == system_map(args.system)
           cusps == swe_houses_cusps(args.ramc, args.latitude, swe_system, len)
           ascmc == swe_ascmc(args.ramc, args.latitude)
       IN  /\ asc_longitude' = Some(ascmc[1] % FULL)
           /\ mc_longitude' = Some(ascmc[2] % FULL)
           /\ result' = swiss_result(ascmc, cusps)
    /\ pc' = "done"
    /\ UNCHANGED << requests, solver, service, env_HOUSE_ENGINE, args, eph, c11, c12, c3, c2, houses, exc,
                    stdout >>

(* Swiss path, an exception anywhere in the try: caught, falls through *)
SwissFail ==
    /\ pc = "engine"
    /\ engine_is_swiss(env_HOUSE_ENGINE)
    /\ stdout' = Append(stdout, "Swiss engine failed")
    /\ pc' = "load"
    /\ UNCHANGED << requests, solver, service, env_HOUSE_ENGINE, args, eph, locals >>

SkipSwiss ==
    /\ pc = "engine"
    /\ ~engine_is_swiss(env_HOUSE_ENGINE)
    /\ pc' = "load"
    /\ UNCHANGED << requests, solver, service, env_HOUSE_ENGINE, args, eph, locals, stdout >>

(* if eph is None or ts is None: load the file or raise FileNotFoundError *)
LoadEphemeris(file_exists) ==
    /\ pc = "load"
    /\ IF eph = "none" /\ ~file_exists
       THEN /\ exc' = "FileNotFoundError"
            /\ pc' = "raised"
            /\ eph' = eph
       ELSE /\ eph' = "loaded"
            /\ pc' = "angles"
            /\ exc' = exc
    /\ UNCHANGED << requests, solver, service, env_HOUSE_ENGINE, args, asc_longitude, mc_longitude,
                    c11, c12, c3, c2, houses, result, stdout >>

(* RAMC, obliquity, MC and ASC *)
ComputeAngles ==
    /\ pc = "angles"
    /\ IF asc_raises(args.ramc, args.latitude)
       THEN /\ mc_longitude' = Some(mc_formula(args.ramc))
            /\ asc_longitude' = asc_longitude
            /\ exc' = "ZeroDivisionError"
            /\ pc' = "raised"
       ELSE /\ mc_longitude' = Some(mc_formula(args.ramc))
            /\ asc_longitude' = Some(asc_formula(args.ramc, args.latitude))
            /\ exc' = exc
            /\ pc' = "dispatch"
    /\ UNCHANGED << requests, solver, service, env_HOUSE_ENGINE, args, eph, c11, c12, c3, c2, houses,
                    result, stdout >>

EqualHouses ==
    /\ pc = "dispatch"
    /\ branch(args.system) = "equal"
    /\ houses' = [ i \in 1 .. 12 |->
                     house_entry(i, equal_cusp(Val(asc_longitude), i)) ]
    /\ pc' = "result"
    /\ UNCHANGED << requests, solver, service, env_HOUSE_ENGINE, args, eph, asc_longitude, mc_longitude,
                    c11, c12, c3, c2, result, exc, stdout >>

KochHouses ==
    /\ pc = "dispatch"
    /\ branch(args.system) = "koch"
    /\ houses' = [ i \in 1 .. 12 |->
                     house_entry(i, koch_cusps(Val(asc_longitude), Val(mc_longitude))[i]) ]
    /\ pc' = "result"
    /\ UNCHANGED << requests, solver, service, env_HOUSE_ENGINE, args, eph, asc_longitude, mc_longitude,
                    c11, c12, c3, c2, result, exc, stdout >>

(* the Placidus windows of the running call *)
win_mc_asc == win_ccw(Val(mc_longitude), Val(asc_longitude))
win_asc_ic == win_ccw(Val(asc_longitude), normalize_deg(Val(mc_longitude) + HALF))

no_root(c) == IF IsNone(c) THEN << "NO ROOT" >> ELSE << >>

SolveC11 ==
    /\ pc = "dispatch"
    /\ branch(args.system) = "placidus"
    /\ c11' = solve_lambda_by_OA(2, args.ramc, 1, win_mc_asc[1], win_mc_asc[2],
                                 InitStep, FALSE, args.latitude)
    /\ stdout' = stdout \o << "solve C11" >> \o no_root(c11')
    /\ pc' = "c12"
    /\ UNCHANGED << requests, solver, service, env_HOUSE_ENGINE, args, eph, asc_longitude, mc_longitude,
                    c12, c3, c2, houses, result, exc >>

(* a variant that starts the window of cusp 12 at MC whatever c11 is *)
win_c12_from_mc == win_mc_asc[1]

(* the window of cusp 12 starts at c11, or at MC when c11 is None *)
win_c12_start == IF ~IsNone(c11) THEN Val(c11) ELSE win_mc_asc[1]

SolveC12 ==
    /\ pc = "c12"
    /\ c12' = solve_lambda_by_OA(1, args.ramc, 1, win_c12_start, win_mc_asc[2],
                                 InitStep, FALSE, args.latitude)
    /\ stdout' = stdout \o << "solve C12" >> \o no_root(c12')
    /\ pc' = "c3"
    /\ UNCHANGED << requests, solver, service, env_HOUSE_ENGINE, args, eph, asc_longitude, mc_longitude,
                    c11, c3, c2, houses, result, exc >>

SolveC3 ==
    /\ pc = "c3"
    /\ c3' = solve_lambda_by_OA(2, args.ramc + HALF, 1, win_asc_ic[1], win_asc_ic[2],
                                FineStep, TRUE, args.latitude)
    /\ stdout' = stdout \o << "solve C3" >> \o no_root(c3')
    /\ pc' = IF IsNone(c3') THEN "c3_fallback" ELSE "c2"
    /\ UNCHANGED << requests, solver, service, env_HOUSE_ENGINE, args, eph, asc_longitude, mc_longitude,
                    c11, c12, c2, houses, result, exc >>

FallbackC3 ==
    /\ pc = "c3_fallback"
    /\ c3' = solve_with_fallback(2, args.ramc + HALF, win_asc_ic[1], win_asc_ic[2],
                                 TRUE, SampleStep, args.latitude)
    /\ pc' = "c2"
    /\ UNCHANGED << requests, solver, service, env_HOUSE_ENGINE, args, eph, asc_longitude, mc_longitude,
                    c11, c12, c2, houses, result, exc, stdout >>

(* the window of cusp 2 ends at c3, or at IC when c3 is None *)
win_c2_end == IF ~IsNone(c3) THEN Val(c3) ELSE win_asc_ic[2]

SolveC2 ==
    /\ pc = "c2"
    /\ c2' = solve_lambda_by_OA(1, args.ramc + HALF, 1, win_asc_ic[1], win_c2_end,
                                FineStep, TRUE, args.latitude)
    /\ stdout' = stdout \o << "solve C2" >> \o no_root(c2')
    /\ pc' = IF IsNone(c2') THEN "c2_fallback" ELSE "mirror"
    /\ UNCHANGED << requests, solver, service, env_HOUSE_ENGINE, args, eph, asc_longitude, mc_longitude,
                    c11, c12, c3, houses, result, exc >>

FallbackC2 ==
    /\ pc = "c2_fallback"
    /\ c2' = solve_with_fallback(1, args.ramc + HALF, win_asc_ic[1], win_c2_end,
                                 TRUE, SampleStep, args.latitude)
    /\ pc' = "mirror"
    /\ UNCHANGED << requests, solver, service, env_HOUSE_ENGINE, args, eph, asc_longitude, mc_longitude,
                    c11, c12, c3, houses, result, exc, stdout >>

(* mirror 5,6,8,9, fill the missing cusps with the Equal value, list 1..12 *)
PlacidusHouses ==
    /\ pc = "mirror"
    /\ LET cv == cv_map(Val(asc_longitude), Val(mc_longitude), c11, c12, c3, c2)
       IN  houses' = [ i \in 1 .. 12 |->
                         house_entry(i, number_to_long(cv, Val(asc_longitude), i)) ]
    /\ pc' = "result"
    /\ UNCHANGED << requests, solver, service, env_HOUSE_ENGINE, args, eph, asc_longitude, mc_longitude,
                    c11, c12, c3, c2, result, exc, stdout >>

(* dc, ic and the result dict; the HOUSE_REF_CUSPS comparison only prints *)
BuildResult ==
    /\ pc = "result"
    /\ result' = build_result(Val(asc_longitude), Val(mc_longitude), houses)
    /\ pc' = "done"
    /\ UNCHANGED << requests, solver, service, env_HOUSE_ENGINE, args, eph, asc_longitude, mc_longitude,
                    c11, c12, c3, c2, houses, exc, stdout >>

(* the call is over: its locals are gone, the environment stays *)
Return ==
    /\ pc \in { "done", "raised" }
    /\ pc' = "idle"
    /\ args' = [ system |-> "placidus", latitude |-> 0, ramc |-> 0 ]
    /\ eph' = "none"
    /\ asc_longitude' = None
    /\ mc_longitude' = None
    /\ c11' = None /\ c12' = None /\ c3' = None /\ c2' = None
    /\ houses' = << >>
    /\ result' = NoResult
    /\ exc' = ""
    /\ stdout' = << >>
    /\ UNCHANGED << requests, solver, service, env_HOUSE_ENGINE >>

Next ==
    \/ \E v \in EngineValues : SetEngine(v)
    \/ \E system \in Systems, latitude \in Latitudes, ramc \in Ramcs,
          eph_arg \in { "none", "loaded" } :
          Call(system, latitude, ramc, eph_arg)
    \/ \E len \in { 12, 13 } : SwissReturn(len)
    \/ SwissFail
    \/ SkipSwiss
    \/ \E file_exists \in BOOLEAN : LoadEphemeris(file_exists)
    \/ ComputeAngles
    \/ EqualHouses
    \/ KochHouses
    \/ SolveC11
    \/ SolveC12
    \/ SolveC3
    \/ FallbackC3
    \/ SolveC2
    \/ FallbackC2
    \/ PlacidusHouses
    \/ BuildResult
    \/ Return

Spec == Init /\ [][Next]_vars

----------------------------------------------------------------------------
(* The Placidus branch as a function of the angles, RAMC and latitude      *)

or_fallback(primary, n_num, base_ramc, win_start, win_end, latitude) ==
    IF IsNone(primary)
    THEN solve_with_fallback(n_num, base_ramc, win_start, win_end, TRUE, SampleStep,
                             latitude)
    ELSE primary

placidus_longitudes(asc, mc, s11, s12, s3, s2) ==
    [ i \in 1 .. 12 |-> number_to_long(cv_map(asc, mc, s11, s12, s3, s2), asc, i) ]

placidus_branch(asc, mc, ramc, latitude) ==
    LET ic == normalize_deg(mc + HALF)
        s11 == solve_lambda_by_OA(2, ramc, 1, normalize_deg(mc), normalize_deg(asc),
                                  InitStep, FALSE, latitude)
        s12 == solve_lambda_by_OA(1, ramc, 1,
                                  IF ~IsNone(s11) THEN Val(s11) ELSE normalize_deg(mc),
                                  normalize_deg(asc), InitStep, FALSE, latitude)
        s3 == or_fallback(solve_lambda_by_OA(2, ramc + HALF, 1, normalize_deg(asc), ic,
                                             FineStep, TRUE, latitude),
                          2, ramc + HALF, normalize_deg(asc), ic, latitude)
        end2 == IF ~IsNone(s3) THEN Val(s3) ELSE ic
        s2 == or_fallback(solve_lambda_by_OA(1, ramc + HALF, 1, normalize_deg(asc), end2,
                                             FineStep, TRUE, latitude),
                          1, ramc + HALF, normalize_deg(asc), end2, latitude)
    IN  placidus_longitudes(asc, mc, s11, s12, s3, s2)

----------------------------------------------------------------------------
(* Properties of the result of calculate_houses                            *)

(* a call has returned its dict; the local list houses is filled only by  *)
(* the formula path, the Swiss path returns its own houses_list            *)
returned == pc = "done"
skyfield_returned == pc = "done" /\ houses # << >>
swiss_returned == pc = "done" /\ houses = << >>

ASC == result.ascendant.longitude
DSC == result.descendant.longitude
MC == result.mc.longitude
IC == result.ic.longitude
cusp(i) == result.houses[i].longitude
cusps == [ i \in 1 .. 12 |-> cusp(i) ]

(* C1: every result, on either path and for every system token, has a    *)
(* houses list of exactly 12 entries numbered 1, 2, ..., 12 in that order, *)
(* each with a longitude in [0,360), also when Placidus cusps were not     *)
(* solved.                                                                 *)
C1_TwelveHousesInRange ==
    returned =>
        /\ Len(result.houses) = 12
        /\ \A i \in 1 .. 12 :
              /\ result.houses[i].number = i
              /\ result.houses[i].longitude >= 0
              /\ result.houses[i].longitude < FULL

C1_Witness ==
    /\ skyfield_returned
    /\ args.system = "whole"
    /\ IsNone(c11)
    /\ IsNone(c12)

(* C2: in every result, on either path, the descendant is the ascendant   *)
(* plus 180 degrees modulo 360 and the IC is the MC plus 180 degrees       *)
(* modulo 360.                                                             *)
C2_AntipodalAngles ==
    returned =>
        /\ DSC = (ASC + HALF) % FULL
        /\ IC = (MC + HALF) % FULL

C2_Witness ==
    /\ swiss_returned
    /\ ASC >= HALF
    /\ MC < HALF

(* C3: in every Placidus result of the formula path cusp 5 is cusp 11     *)
(* plus 180, cusp 6 is cusp 12 plus 180, cusp 8 is cusp 2 plus 180 and     *)
(* cusp 9 is cusp 3 plus 180 (mod 360), whether the cusps were solved or   *)
(* replaced by the Equal value; and the only solves run are those of       *)
(* cusps 11, 12, 3 and 2.                                                  *)
C3_MirroredCusps ==
    (skyfield_returned /\ args.system = "placidus") =>
        /\ cusp(5) = (cusp(11) + HALF) % FULL
        /\ cusp(6) = (cusp(12) + HALF) % FULL
        /\ cusp(8) = (cusp(2) + HALF) % FULL
        /\ cusp(9) = (cusp(3) + HALF) % FULL
        /\ \A k \in 1 .. Len(stdout) :
              stdout[k] \in { "Swiss engine failed", "NO ROOT", "solve C11",
                              "solve C12", "solve C3", "solve C2" }

C3_Witness ==
    /\ skyfield_returned
    /\ args.system = "placidus"
    /\ ~IsNone(c11)
    /\ IsNone(c12)
    /\ cusp(6) < cusp(12)

(* C4: in every Placidus result of the formula path cusp 1 is the         *)
(* returned ascendant, cusp 4 the returned IC, cusp 7 the returned         *)
(* descendant and cusp 10 the returned MC, with the same signs.            *)
C4_AnchoredAngles ==
    (skyfield_returned /\ args.system = "placidus") =>
        /\ cusp(1) = ASC /\ result.houses[1].sign = result.ascendant.sign
        /\ cusp(4) = IC /\ result.houses[4].sign = result.ic.sign
        /\ cusp(7) = DSC /\ result.houses[7].sign = result.descendant.sign
        /\ cusp(10) = MC /\ result.houses[10].sign = result.mc.sign

C4_Witness ==
    /\ skyfield_returned
    /\ args.system = "placidus"
    /\ IC # (ASC + 3 * SECTOR) % FULL
    /\ result.ascendant.sign # result.mc.sign

(* C5: for system "equal" on the formula path, cusp i is the returned     *)
(* ascendant plus (i-1) times 30 degrees, modulo 360, for i = 1 .. 12.     *)
C5_EqualCusps ==
    (skyfield_returned /\ args.system = "equal") =>
        \A i \in 1 .. 12 : cusp(i) = (ASC + (i - 1) * SECTOR) % FULL

C5_Witness ==
    /\ skyfield_returned
    /\ args.system = "equal"
    /\ cusp(12) < cusp(1)

C7_EqualFallback ==
    (skyfield_returned /\ args.system = "placidus") =>
        /\ IsNone(c11) => /\ cusp(11) = (ASC + 10 * SECTOR) % FULL
                          /\ cusp(5) = (ASC + 4 * SECTOR) % FULL
        /\ IsNone(c12) => /\ cusp(12) = (ASC + 11 * SECTOR) % FULL
                          /\ cusp(6) = (ASC + 5 * SECTOR) % FULL
        /\ IsNone(c2) => /\ cusp(2) = (ASC + SECTOR) % FULL
                         /\ cusp(8) = (ASC + 7 * SECTOR) % FULL
        /\ IsNone(c3) => /\ cusp(3) = (ASC + 2 * SECTOR) % FULL
                         /\ cusp(9) = (ASC + 8 * SECTOR) % FULL
        /\ \A i \in 1 .. 12 : result.houses[i].longitude \in 0 .. FULL - 1

C7_Witness ==
    /\ skyfield_returned
    /\ args.system = "placidus"
    /\ args.latitude = 70
    /\ IsNone(c11) \/ IsNone(c12)

(* C8: a token the running path does not recognise gives the cusps of     *)
(* "placidus": on the formula path every token other than "equal" and      *)
(* "koch" returns the Placidus branch's cusps for the same angles, RAMC    *)
(* and latitude; on the Swiss path every token that is not equal or koch   *)
(* in lower case returns the library's "P" cusps.                          *)
C8_UnknownTokenIsPlacidus ==
    /\ (skyfield_returned /\ args.system \notin { "equal", "koch" }) =>
          cusps = placidus_branch(ASC, MC, args.ramc, args.latitude)
    /\ (swiss_returned /\ lower(args.system) \notin { "equal", "koch" }) =>
          cusps = [ i \in 1 .. 12 |->
                      swe_cusp(args.ramc, args.latitude, "P", i) % FULL ]

C8_Witness ==
    /\ skyfield_returned
    /\ args.system = "whole"
    /\ ~IsNone(c11)
    /\ cusps # [ i \in 1 .. 12 |-> (ASC + (i - 1) * SECTOR) % FULL ]

C10_NeverRaises ==
    ~(pc = "raised" /\ eph = "loaded" /\ args.latitude >= -90 /\ args.latitude <= 90)

----------------------------------------------------------------------------
(* The result as a function of the arguments                               *)

(* the twelve longitudes the branch on system appends to houses *)
formula_longitudes(system, asc, mc, ramc, latitude) ==
    IF branch(system) = "equal" THEN [ i \in 1 .. 12 |-> equal_cusp(asc, i) ]
    ELSE IF branch(system) = "koch" THEN koch_cusps(asc, mc)
    ELSE placidus_branch(asc, mc, ramc, latitude)

(* the dict the formula path returns for the arguments a *)
formula_result(a) ==
    LET asc == asc_formula(a.ramc, a.latitude)
        mc == mc_formula(a.ramc)
        lons == formula_longitudes(a.system, asc, mc, a.ramc, a.latitude)
    IN  build_result(asc, mc, [ i \in 1 .. 12 |-> house_entry(i, lons[i]) ])

(* C11 as stated: the result of a call is a function of its arguments     *)
(* alone.  Every argument list is also run with HOUSE_ENGINE unset, where  *)
(* the formula path returns formula_result(args), so such a function can   *)
(* only be formula_result: every returned result equals it, whatever the   *)
(* environment variable holds.                                             *)
C11_FunctionOfArguments ==
    returned => result = formula_result(args)

----------------------------------------------------------------------------
(* The Placidus branch on a finer grid of instants: calls of the formula   *)
(* path with system = 'placidus' and eph, ts passed in                     *)

(* how many RAMC values the finer grid has *)
NumRamcFine == 12

FineRamcs == { (k * FULL) \div NumRamcFine : k \in 0 .. NumRamcFine - 1 }
PlacidusLatitudes == { 35, 70 }

PlacidusNext ==
    \/ \E latitude \in PlacidusLatitudes, ramc \in FineRamcs :
          Call("placidus", latitude, ramc, "loaded")
    \/ SkipSwiss
    \/ LoadEphemeris(TRUE)
    \/ ComputeAngles
    \/ SolveC11
    \/ SolveC12
    \/ SolveC3
    \/ FallbackC3
    \/ SolveC2
    \/ FallbackC2
    \/ PlacidusHouses
    \/ BuildResult
    \/ Return

PlacidusSpec == Init /\ [][PlacidusNext]_vars

(* the latitude has a rising hour angle for every declination of the      *)
(* ecliptic: rising_hour_angle never returns None                          *)
non_circumpolar(latitude) ==
    \A o \in 1 .. 8 : ~IsNone(rising_hour_angle(delta_table[o], latitude))

(* the arc from a forward (increasing longitude) to b *)
forward_arc(a, b) == (b - a) % FULL

RECURSIVE arc_sum(_, _)
arc_sum(l, i) ==
    IF i = 0 THEN 0 ELSE forward_arc(l[i], l[(i % 12) + 1]) + arc_sum(l, i - 1)

(* C12 as stated: for system = placidus at a non-circumpolar latitude     *)
(* every cusp lies ahead of its predecessor going from cusp 1 through     *)
(* cusp 12 back to cusp 1, and the twelve forward arcs sum to 360 degrees. *)
C12_MonotonicOrdering ==
    (skyfield_returned /\ branch(args.system) = "placidus"
        /\ non_circumpolar(args.latitude)) =>
        /\ \A i \in 1 .. 12 : forward_arc(cusp(i), cusp((i % 12) + 1)) > 0
        /\ arc_sum(cusps, 12) = FULL

----------------------------------------------------------------------------
(* One solve, advanced one loop pass at a time: the for loop over          *)
(* iter_window and the bisection loop of solve_lambda_by_OA, the sampling  *)
(* loop and the secant loop of solve_with_fallback                         *)

(* a step that does not divide the circle, next to the steps the code uses *)
OtherStep == 7

(* n_frac in thirds and use_descension of the four equations *)
SolveEquations == { << 2, FALSE >>, << 1, FALSE >>, << 2, TRUE >>, << 1, TRUE >> }
SolveLatitudes == { 35, 70 }
SolveRamcs == { 0, 2400, 6000 }
WindowStarts == { 54, 1754, 6454 }
WindowLengths == { 0, 4, 15, 2096 }
ScanSteps == { InitStep, FineStep, OtherStep }

(* the variables of the running calculate_houses call and the environment *)
call_vars == << env_HOUSE_ENGINE, pc, args, eph, locals, stdout >>

(* the locals of a solve at its first loop pass *)
solve_frame(fn, cl, first_pc, angle) ==
    [ pc |-> first_pc, fn |-> fn, cl |-> cl, sign_factor |-> 1,
      angle |-> angle, yielded |-> 0, prev_lam |-> None, prev_val |-> None,
      lo |-> 0, hi |-> 0, flo |-> 0, iters |-> 0,
      guard |-> 0, best |-> None,
      lam0 |-> 0, f0 |-> 0, lam1 |-> 0, f1 |-> 0, s0 |-> 1,
      root |-> None ]

(* the while loop of iter_window is left: the angle just yielded, which   *)
(* is not the first one, is within half a step of end_n                    *)
window_done(angle, yielded, cl) ==
    yielded >= 2 /\ 2 * Abs(circ_diff(angle, normalize_deg(cl.win_end))) <= cl.step

(* the scan of a window this long has come round the circle twice *)
yield_cap(step) == 2 * (FULL \div step) + 4

(* solve_lambda_by_OA is called: iter_window yields start + step first *)
scan_call(n_num, use_descension, ramc, latitude, win_start, win_end, step) ==
    [ solve_frame("solve_lambda_by_OA",
                  closure(n_num, IF use_descension THEN ramc + HALF ELSE ramc,
                          win_start, win_end, step, use_descension, latitude),
                  "scan", normalize_deg(win_start + step))
      EXCEPT !.yielded = 1 ]

ScanCall ==
    /\ solver.pc = "idle"
    /\ \E eq \in SolveEquations, ramc \in SolveRamcs, latitude \in SolveLatitudes,
          win_start \in WindowStarts, len \in WindowLengths, step \in ScanSteps :
          solver' = scan_call(eq[1], eq[2], ramc, latitude, win_start,
                              normalize_deg(win_start + len), step)
    /\ UNCHANGED << call_vars, requests, service >>

(* the generator is resumed after a pass that did not return *)
scan_resume(f, lam, val) ==
    IF window_done(lam, f.yielded, f.cl)
    THEN [ f EXCEPT !.pc = "returned", !.root = None,
                    !.prev_lam = Some(lam), !.prev_val = val ]
    ELSE [ f EXCEPT !.angle = normalize_deg(lam + f.cl.step), !.yielded = @ + 1,
                    !.prev_lam = Some(lam), !.prev_val = val ]

(* one pass of the for loop of solve_lambda_by_OA on the angle yielded *)
scan_pass(f) ==
    LET lam == f.angle
        val == F(lam, f.sign_factor, f.cl)
    IN  IF IsNone(f.prev_val) \/ IsNone(val) \/ IsNone(f.prev_lam)
        THEN scan_resume(f, lam, val)
        ELSE IF Val(f.prev_val) = 0
        THEN [ f EXCEPT !.pc = "returned", !.root = f.prev_lam ]
        ELSE IF Val(val) = 0
        THEN [ f EXCEPT !.pc = "returned", !.root = Some(lam) ]
        ELSE IF Val(f.prev_val) * Val(val) < 0
        THEN [ f EXCEPT !.pc = "bisect", !.lo = Val(f.prev_lam), !.hi = lam,
                        !.flo = Val(f.prev_val), !.iters = 0 ]
        ELSE scan_resume(f, lam, val)

ScanPass ==
    /\ solver.pc = "scan"
    /\ solver.yielded < yield_cap(solver.cl.step)
    /\ solver' = scan_pass(solver)
    /\ UNCHANGED << call_vars, requests, service >>

(* one pass of for _ in range(30) *)
bisect_pass(f) ==
    LET mid == (f.lo + f.hi) \div 2
        fmid == F(mid, f.sign_factor, f.cl)
    IN  IF IsNone(fmid) THEN [ f EXCEPT !.lo = mid, !.iters = @ + 1 ]
        ELSE IF Val(fmid) = 0
        THEN [ f EXCEPT !.pc = "returned", !.root = Some(normalize_deg(mid)),
                        !.iters = @ + 1 ]
        ELSE IF f.flo * Val(fmid) <= 0
        THEN [ f EXCEPT !.hi = mid, !.iters = @ + 1 ]
        ELSE [ f EXCEPT !.lo = mid, !.flo = Val(fmid), !.iters = @ + 1 ]

BisectPass ==
    /\ solver.pc = "bisect"
    /\ solver.iters < BisectIters
    /\ solver' = bisect_pass(solver)
    /\ UNCHANGED << call_vars, requests, service >>

(* the range is used up: return normalize_deg((lo + hi) / 2.0) *)
BisectEnd ==
    /\ solver.pc = "bisect"
    /\ solver.iters = BisectIters
    /\ solver' = [ solver EXCEPT !.pc = "returned",
                      !.root = Some(normalize_deg((solver.lo + solver.hi) \div 2)) ]
    /\ UNCHANGED << call_vars, requests, service >>

(* solve_with_fallback is called: the sampling starts at win_start itself *)
sample_call(n_num, ramc, latitude, win_start, win_end) ==
    solve_frame("solve_with_fallback",
                closure(n_num, ramc + HALF, win_start, win_end, SampleStep, TRUE,
                        latitude),
                "sample", normalize_deg(win_start))

SampleCall ==
    /\ solver.pc = "idle"
    /\ \E n_num \in { 1, 2 }, ramc \in SolveRamcs, latitude \in SolveLatitudes,
          win_start \in WindowStarts, len \in WindowLengths :
          solver' = sample_call(n_num, ramc, latitude, win_start,
                                normalize_deg(win_start + len))
    /\ UNCHANGED << call_vars, requests, service >>

(* a variant that leaves the sampling loop on the guard alone *)
sampling_done_guard_only(angle, guard, cl) == guard > (FULL \div cl.step) + 5

(* the test that leaves the sampling loop *)
sampling_done(angle, guard, cl) ==
    \/ 2 * Abs(circ_diff(angle, normalize_deg(cl.win_end))) <= cl.step
    \/ guard > (FULL \div cl.step) + 5

(* a variant that returns None when F_val is undefined at lam0 + step *)
after_sampling_or_missing(f) ==
    IF IsNone(f.best) THEN [ f EXCEPT !.pc = "returned", !.root = None ]
    ELSE LET lam0 == Val(f.best)[2]
             s0 == Val(f.best)[3]
             lam1 == normalize_deg(lam0 + f.cl.step)
             f0 == F(lam0, s0, f.cl)
             f1 == F(lam1, s0, f.cl)
         IN  IF IsNone(f0) \/ IsNone(f1)
             THEN [ f EXCEPT !.pc = "returned", !.root = None ]
             ELSE [ f EXCEPT !.pc = "secant", !.lam0 = lam0, !.s0 = s0, !.lam1 = lam1,
                             !.f0 = Val(f0), !.f1 = Val(f1), !.iters = 0 ]

(* after the sampling loop: return None or lam0, or enter the secant loop *)
after_sampling(f) ==
    IF IsNone(f.best) THEN [ f EXCEPT !.pc = "returned", !.root = None ]
    ELSE LET lam0 == Val(f.best)[2]
             s0 == Val(f.best)[3]
             lam1 == normalize_deg(lam0 + f.cl.step)
             f0 == F(lam0, s0, f.cl)
             f1 == F(lam1, s0, f.cl)
         IN  IF IsNone(f0) \/ IsNone(f1)
             THEN [ f EXCEPT !.pc = "returned", !.root = Some(lam0) ]
             ELSE [ f EXCEPT !.pc = "secant", !.lam0 = lam0, !.s0 = s0, !.lam1 = lam1,
                             !.f0 = Val(f0), !.f1 = Val(f1), !.iters = 0 ]

(* one pass of the while loop of solve_with_fallback *)
sample_pass(f) ==
    LET sampled == [ f EXCEPT !.best = better(f.best, sample_at(f.angle, f.cl)),
                              !.angle = normalize_deg(f.angle + f.cl.step),
                              !.guard = @ + 1 ]
    IN  IF sampling_done(sampled.angle, sampled.guard, sampled.cl)
        THEN after_sampling(sampled)
        ELSE sampled

SamplePass ==
    /\ solver.pc = "sample"
    /\ solver' = sample_pass(solver)
    /\ UNCHANGED << call_vars, requests, service >>

(* one pass of for _ in range(20) *)
secant_pass(f) ==
    IF f.f1 - f.f0 = 0 THEN [ f EXCEPT !.pc = "returned", !.root = Some(f.lam1) ]
    ELSE LET lam2 == clip(normalize_deg(f.lam1
                            - quotient(f.f1 * (f.lam1 - f.lam0), f.f1 - f.f0)), f.cl)
             f2 == F(lam2, f.s0, f.cl)
         IN  IF IsNone(f2) THEN [ f EXCEPT !.pc = "returned", !.root = Some(f.lam1) ]
             ELSE IF Val(f2) = 0
             THEN [ f EXCEPT !.pc = "returned", !.root = Some(lam2), !.lam0 = f.lam1,
                             !.f0 = f.f1, !.lam1 = lam2, !.f1 = 0, !.iters = @ + 1 ]
             ELSE [ f EXCEPT !.lam0 = f.lam1, !.f0 = f.f1, !.lam1 = lam2,
                             !.f1 = Val(f2), !.iters = @ + 1 ]

SecantPass ==
    /\ solver.pc = "secant"
    /\ solver.iters < SecantIters
    /\ solver' = secant_pass(solver)
    /\ UNCHANGED << call_vars, requests, service >>

(* the range is used up: return lam1 *)
SecantEnd ==
    /\ solver.pc = "secant"
    /\ solver.iters = SecantIters
    /\ solver' = [ solver EXCEPT !.pc = "returned", !.root = Some(solver.lam1) ]
    /\ UNCHANGED << call_vars, requests, service >>

(* the solve has returned and its frame is gone *)
SolveReturn ==
    /\ solver.pc = "returned"
    /\ solver' = NoSolve
    /\ UNCHANGED << call_vars, requests, service >>

SolverNext ==
    \/ ScanCall
    \/ ScanPass
    \/ BisectPass
    \/ BisectEnd
    \/ SampleCall
    \/ SamplePass
    \/ SecantPass
    \/ SecantEnd
    \/ SolveReturn

SolverSpec == Init /\ [][SolverNext]_vars

----------------------------------------------------------------------------
(* Properties of the solver loops                                          *)

OA_frame == solver.pc # "idle" /\ solver.fn = "solve_lambda_by_OA"
fallback_frame == solver.pc # "idle" /\ solver.fn = "solve_with_fallback"

(* C13: every loop of a solve is bounded, for every window and step,      *)
(* win_start = win_end included: iter_window yields at most one sample     *)
(* more than a full circle of steps and so never comes round twice, the   *)
(* bisection makes at most 30 passes, the sampling loop at most            *)
(* 360/sample_step + 5 passes and the secant loop at most 20 passes; a     *)
(* frame that is not returned always has a next pass to make.              *)
C13_BoundedLoops ==
    /\ OA_frame =>
          /\ solver.yielded <= (FULL \div solver.cl.step) + 1
          /\ solver.yielded < yield_cap(solver.cl.step)
          /\ solver.iters <= BisectIters
    /\ fallback_frame =>
          /\ solver.guard <= (FULL \div solver.cl.step) + 5
          /\ solver.iters <= SecantIters
    /\ solver.pc \in { "idle", "scan", "bisect", "sample", "secant", "returned" }

(* a scan of a window with win_start = win_end that went more than half   *)
(* way round the circle before it returned                                 *)
C13_Witness ==
    /\ OA_frame
    /\ solver.pc = "returned"
    /\ solver.cl.win_start = solver.cl.win_end
    /\ solver.yielded * solver.cl.step > HALF

(* the solve returned what the bisection loop found *)
bisected == OA_frame /\ solver.pc = "returned" /\ solver.iters > 0

(* C19 as stated: the longitude the bisection returns lies on the arc,    *)
(* one step long, from the sample before the sign change to the sample    *)
(* after it, wherever that arc lies.                                       *)
C19_BisectionOnCrossingArc ==
    bisected =>
        forward_arc(Val(solver.prev_lam), Val(solver.root))
            <= forward_arc(Val(solver.prev_lam), solver.angle)

(* the longitude lies on the arc from win_start to win_end or at most     *)
(* half a step past win_end                                                *)
in_window(lam, cl) ==
    2 * forward_arc(cl.win_start, lam)
        <= 2 * forward_arc(cl.win_start, cl.win_end) + cl.step

(* C20 as stated: every longitude the scan evaluates F at, and every root *)
(* the scan itself returns, lies in the window, for every window, those    *)
(* shorter than 1.5 steps and win_start = win_end included.                *)
C20_ScanInsideWindow ==
    /\ (OA_frame /\ solver.pc = "scan") => in_window(solver.angle, solver.cl)
    /\ (OA_frame /\ solver.pc = "returned" /\ solver.iters = 0
            /\ ~IsNone(solver.root)) => in_window(Val(solver.root), solver.cl)

----------------------------------------------------------------------------
(* lambda_handler invocations running in one process: each switches the    *)
(* process-wide HOUSE_ENGINE and then calls calculate_houses, which reads  *)
(* it; threads may be scheduled between any two of these statements.       *)
(* pyswisseph is taken to be importable, so the Swiss path returns.        *)

(* how many invocations may be in progress at once *)
NumRequests == 2

Routes == { "create", "houses" }
(* body.get('engine'): "" when the body has none *)
BodyEngines == { "swiss", "skyfield", "" }
RequestSystems == { "equal", "koch" }
request_place == [ latitude |-> 35, ramc |-> 2400 ]

(* (body.get('engine') or os.environ.get('HOUSE_ENGINE') or 'skyfield').lower() *)
engine_of(body_engine, env) ==
    IF body_engine # "" THEN body_engine
    ELSE IF env = "SWISS" THEN "swiss"
    ELSE "skyfield"

(* the houses list calculate_houses returns on the path it took *)
houses_by(engine_read, system) ==
    IF engine_read = "SWISS"
    THEN swiss_houses_list(swe_houses_cusps(request_place.ramc, request_place.latitude,
                                            system_map(system), 12))
    ELSE formula_result([ system |-> system, latitude |-> request_place.latitude,
                          ramc |-> request_place.ramc ]).houses

(* API Gateway delivers an event: lambda_handler starts *)
Invoke(route, body_engine, system) ==
    /\ Len(requests) < NumRequests
    /\ requests' = Append(requests,
                       [ pc |-> "start", route |-> route, body_engine |-> body_engine,
                         system |-> system, engine |-> "", engine_read |-> "",
                         cusps |-> << >> ])
    /\ UNCHANGED << call_vars, solver, service >>

(* engine = (body.get('engine') or ...).lower() *)
ReadEngine ==
    \E i \in 1 .. Len(requests) :
    /\ requests[i].pc = "start"
    /\ requests' = [ requests EXCEPT ![i].pc = "switch",
                        ![i].engine = engine_of(requests[i].body_engine,
                                                env_HOUSE_ENGINE) ]
    /\ UNCHANGED << call_vars, solver, service >>

(* os.environ['HOUSE_ENGINE'] = 'SWISS' or 'SKYFIELD' *)
SwitchEngine ==
    \E i \in 1 .. Len(requests) :
    /\ requests[i].pc = "switch"
    /\ env_HOUSE_ENGINE' = IF requests[i].engine = "swiss" THEN "SWISS" ELSE "SKYFIELD"
    /\ requests' = [ requests EXCEPT ![i].pc = "call" ]
    /\ UNCHANGED << pc, args, eph, locals, stdout, solver, service >>

(* calculate_houses is entered and tests os.environ.get("HOUSE_ENGINE") *)
EnterHouses ==
    \E i \in 1 .. Len(requests) :
    /\ requests[i].pc = "call"
    /\ requests' = [ requests EXCEPT ![i].pc = "houses",
                        ![i].engine_read =
                            IF engine_is_swiss(env_HOUSE_ENGINE) THEN "SWISS"
                            ELSE "SKYFIELD" ]
    /\ UNCHANGED << call_vars, solver, service >>

(* calculate_houses returns and the response body is built *)
ReturnHouses ==
    \E i \in 1 .. Len(requests) :
    /\ requests[i].pc = "houses"
    /\ requests' = [ requests EXCEPT ![i].pc = "done",
                        ![i].cusps = houses_by(requests[i].engine_read,
                                               requests[i].system) ]
    /\ UNCHANGED << call_vars, solver, service >>

(* the response is returned: the invocation is over *)
Respond ==
    \E i \in 1 .. Len(requests) :
    /\ requests[i].pc = "done"
    /\ requests' = SubSeq(requests, 1, i - 1) \o SubSeq(requests, i + 1, Len(requests))
    /\ UNCHANGED << call_vars, solver, service >>

HandlerNext ==
    \/ \E route \in Routes, body_engine \in BodyEngines, system \in RequestSystems :
          Invoke(route, body_engine, system)
    \/ ReadEngine
    \/ SwitchEngine
    \/ EnterHouses
    \/ ReturnHouses
    \/ Respond

HandlerSpec == Init /\ [][HandlerNext]_vars

(* C14 as stated: a request whose body names an engine has its houses     *)
(* computed by that engine, whatever the other invocations in the process  *)
(* are doing.                                                              *)
C14_RequestsIndependent ==
    \A i \in 1 .. Len(requests) :
        (requests[i].pc = "done" /\ requests[i].body_engine # "") =>
            /\ requests[i].engine_read = (IF requests[i].body_engine = "swiss"
                                          THEN "SWISS" ELSE "SKYFIELD")
            /\ requests[i].cusps = houses_by(IF requests[i].body_engine = "swiss"
                                             THEN "SWISS" ELSE "SKYFIELD",
                                             requests[i].system)

----------------------------------------------------------------------------
(* get_zodiac_sign_jp called on its own, and HoloscopeService.create from  *)
(* calculate_planets to the element and quality counts.  The frame is the  *)
(* record service.                                                         *)

(* how many planets calculate_planets returns (planet_map has 10) *)
NumPlanets == 2

(* longitudes handed to get_zodiac_sign_jp: for sectors on both sides of   *)
(* 0 and beyond 360, the first tick, the second, the middle and the last    *)
SignLongitudes ==
    { k * SECTOR + d : k \in -12 .. 23, d \in { 0, 1, SECTOR \div 2, SECTOR - 1 } }

(* ecl[1].degrees of a planet, before the % 360 of calculate_planets: one  *)
(* value in each sign, the two ends of the circle and one beyond 360       *)
EclipticLongitudes == { -1, 0, 9200 } \cup { k * SECTOR + 254 : k \in 0 .. 11 }

(* house lists create can be handed: what the formula path returns, and    *)
(* lists of HouseInfo with cusps out of order, with equal neighbours, and   *)
(* all equal                                                               *)
house_longitudes(house_result) ==
    [ i \in 1 .. 12 |-> house_result.houses[i].longitude ]

ReturnedHouseLists ==
    { house_longitudes(formula_result([ system |-> system, latitude |-> latitude,
                                        ramc |-> ramc ])) :
        system \in { "equal", "placidus" }, latitude \in PlacidusLatitudes,
        ramc \in Ramcs }

OtherHouseLists ==
    { << 0, 600, 1200, 1800, 2400, 3000, 3600, 4200, 4800, 5400, 6000, 6600 >>,
      << 6559, 4594, 791, 1567, 2000, 2600, 3359, 1394, 4391, 4767, 5200, 5800 >>,
      << 0, 0, 1200, 1800, 2400, 3000, 3600, 4200, 4800, 5400, 6000, 6600 >>,
      << 1500, 2100, 2700, 2700, 2700, 4500, 5100, 5700, 6300, 6300, 6300, 900 >>,
      [ i \in 1 .. 12 |-> 2000 ] }

HouseLists == ReturnedHouseLists \cup OtherHouseLists

(* get_zodiac_sign_jp(lon) is called and returns *)
SignCall ==
    /\ service.pc = "idle"
    /\ \E lon \in SignLongitudes :
          service' = [ pc |-> "sign", longitude |-> lon,
                       sign |-> get_zodiac_sign_jp(lon) ]
    /\ UNCHANGED << call_vars, requests, solver >>

(* the caller drops the name *)
SignReturn ==
    /\ service.pc = "sign"
    /\ service' = NoService
    /\ UNCHANGED << call_vars, requests, solver >>

(* calculate_planets: lon = ecl[1].degrees % 360, sign = get_zodiac_sign_jp(lon); *)
(* create builds PlanetInfo with house = 0                                  *)
planet_info(ecl) ==
    LET lon == ecl % FULL
    IN  [ longitude |-> lon, sign |-> get_zodiac_sign_jp(lon), house |-> 0 ]

CalculatePlanets ==
    /\ service.pc = "idle"
    /\ \E ecl \in [ 1 .. NumPlanets -> EclipticLongitudes ] :
          service' = [ pc |-> "planets",
                       planets |-> [ i \in 1 .. NumPlanets |-> planet_info(ecl[i]) ] ]
    /\ UNCHANGED << call_vars, requests, solver >>

(* calculate_houses has returned: houses, ascendant, descendant, mc, ic *)
HousesBuilt ==
    /\ service.pc = "planets"
    /\ \E hl \in HouseLists :
          service' = [ pc |-> "houses", planets |-> service.planets,
                       houses |-> hl,
                       ascendant |-> sign_entry(hl[1]),
                       descendant |-> sign_entry((hl[1] + HALF) % FULL),
                       mc |-> sign_entry(hl[10]),
                       ic |-> sign_entry((hl[10] + HALF) % FULL) ]
    /\ UNCHANGED << call_vars, requests, solver >>

(* the test of the inner loop of _assign_planets_to_houses *)
in_house(start, end, lon) ==
    IF start < end THEN start <= lon /\ lon < end
    ELSE lon >= start \/ lon < end

(* p.house after the loop over i: the first i that passes, else unchanged *)
assigned_house(p, cs) ==
    LET lon == p.longitude % FULL
        hits == { i \in 1 .. 12 : in_house(cs[i], cs[(i % 12) + 1], lon) }
    IN  IF hits = {} THEN p.house
        ELSE CHOOSE i \in hits : \A j \in hits : i <= j

AssignPlanetsToHouses ==
    /\ service.pc = "houses"
    /\ service' = [ service EXCEPT !.pc = "assigned",
                       !.planets = [ i \in 1 .. Len(service.planets) |->
                           [ service.planets[i] EXCEPT
                               !.house = assigned_house(service.planets[i],
                                                        service.houses) ] ] ]
    /\ UNCHANGED << call_vars, requests, solver >>

fire_signs == { "ohitsuji", "shishi", "ite" }
earth_signs == { "oushi", "otome", "yagi" }
air_signs == { "futago", "tenbin", "mizugame" }
water_signs == { "kani", "sasori", "uo" }

cardinal_signs == { "ohitsuji", "kani", "tenbin", "yagi" }
fixed_signs == { "oushi", "shishi", "sasori", "mizugame" }
mutable_signs == { "futago", "otome", "ite", "uo" }

(* how many entries of the list ps have their sign in the list signs *)
count_in(ps, signs) == Cardinality({ i \in 1 .. Len(ps) : ps[i].sign \in signs })

(* a variant that adds the four angles to the planets *)
calculate_elements_with_angles(planets, ascendant, descendant, mc, ic) ==
    LET all == planets \o << ascendant, descendant, mc, ic >>
        fire == count_in(all, fire_signs)
        earth == count_in(all, earth_signs \ fire_signs)
        air == count_in(all, air_signs \ (fire_signs \cup earth_signs))
        water == count_in(all, water_signs
                                 \ (fire_signs \cup earth_signs \cup air_signs))
    IN  [ fire |-> fire, earth |-> earth, air |-> air, water |-> water ]

(* _calculate_elements: the if/elif chain counts a planet under the first  *)
(* list that has its sign                                                  *)
calculate_elements(planets, ascendant, descendant, mc, ic) ==
    LET fire == count_in(planets, fire_signs)
        earth == count_in(planets, earth_signs \ fire_signs)
        air == count_in(planets, air_signs \ (fire_signs \cup earth_signs))
        water == count_in(planets, water_signs
                                     \ (fire_signs \cup earth_signs \cup air_signs))
    IN  [ fire |-> fire, earth |-> earth, air |-> air, water |-> water ]

(* _calculate_qualities, the same chain over the three quality lists *)
calculate_qualities(planets, ascendant, descendant, mc, ic) ==
    LET cardinal == count_in(planets, cardinal_signs)
        fixed == count_in(planets, fixed_signs \ cardinal_signs)
        mutable == count_in(planets, mutable_signs
                                       \ (cardinal_signs \cup fixed_signs))
    IN  [ cardinal |-> cardinal, fixed |-> fixed, mutable |-> mutable ]

CalculateElements ==
    /\ service.pc = "assigned"
    /\ service' = [ pc |-> "elements", planets |-> service.planets,
                    houses |-> service.houses,
                    ascendant |-> service.ascendant,
                    descendant |-> service.descendant,
                    mc |-> service.mc, ic |-> service.ic,
                    elements |-> calculate_elements(service.planets,
                                     service.ascendant, service.descendant,
                                     service.mc, service.ic) ]
    /\ UNCHANGED << call_vars, requests, solver >>

CalculateQualities ==
    /\ service.pc = "elements"
    /\ service' = [ pc |-> "done", planets |-> service.planets,
                    houses |-> service.houses,
                    ascendant |-> service.ascendant,
                    descendant |-> service.descendant,
                    mc |-> service.mc, ic |-> service.ic,
                    elements |-> service.elements,
                    qualities |-> calculate_qualities(service.planets,
                                      service.ascendant, service.descendant,
                                      service.mc, service.ic) ]
    /\ UNCHANGED << call_vars, requests, solver >>

(* create returns ResponseHoloscopeCreate *)
ServiceReturn ==
    /\ service.pc = "done"
    /\ service' = NoService
    /\ UNCHANGED << call_vars, requests, solver >>

ServiceNext ==
    \/ SignCall
    \/ SignReturn
    \/ CalculatePlanets
    \/ HousesBuilt
    \/ AssignPlanetsToHouses
    \/ CalculateElements
    \/ CalculateQualities
    \/ ServiceReturn

ServiceSpec == Init /\ [][ServiceNext]_vars

(* lon lies in sector k (0 .. 11) of some turn of the circle *)
in_sector(lon, k) ==
    \E turn \in -3 .. 3 :
        /\ turn * FULL + k * SECTOR <= lon
        /\ lon < turn * FULL + (k + 1) * SECTOR

(* two longitudes between the same pair of multiples of 30 degrees *)
same_sector(a, b) ==
    \E s \in -36 .. 36 :
        /\ s * SECTOR <= a /\ a < (s + 1) * SECTOR
        /\ s * SECTOR <= b /\ b < (s + 1) * SECTOR

(* C15: get_zodiac_sign_jp(lon) is the table entry of the 30-degree sector *)
(* lon lies in, counted from 0 degrees and taken round the circle, so it is *)
(* one of the 12 names, lon + 360 gets the same name, and so does every     *)
(* longitude of the same sector.                                           *)
C15_SignBySector ==
    service.pc = "sign" =>
        /\ \E k \in 0 .. 11 :
              /\ in_sector(service.longitude, k)
              /\ service.sign = zodiac_signs_jp[k + 1]
        /\ get_zodiac_sign_jp(service.longitude + FULL) = service.sign
        /\ \A other \in SignLongitudes :
              same_sector(other, service.longitude) =>
                  get_zodiac_sign_jp(other) = service.sign

(* the last tick before 0 degrees is named as the last sign of the table *)
C15_Witness ==
    /\ service.pc = "sign"
    /\ service.longitude = -1
    /\ service.sign = zodiac_signs_jp[12]

(* the planets have been given their houses *)
houses_assigned == service.pc \in { "assigned", "elements", "done" }

(* the arc from start forward to end, end excluded, contains lon *)
arc_contains(start, end, lon) == (lon - start) % FULL < (end - start) % FULL

(* house i of the list cs contains the planet p *)
house_contains(cs, i, p) == arc_contains(cs[i], cs[(i % 12) + 1], p.longitude % FULL)

(* C16 as stated: after _assign_planets_to_houses every planet has a house *)
(* number in 1 .. 12, and it is the smallest i whose arc from cusp(i) up to *)
(* but excluding cusp(i+1) contains the planet, for cusps in cyclic order   *)
(* or not and with equal neighbours or not.                                *)
C16_HouseOfContainingArc ==
    houses_assigned =>
        \A n \in 1 .. Len(service.planets) :
            /\ service.planets[n].house \in 1 .. 12
            /\ house_contains(service.houses, service.planets[n].house,
                              service.planets[n])
            /\ \A j \in 1 .. service.planets[n].house - 1 :
                  ~house_contains(service.houses, j, service.planets[n])

(* C17: _calculate_elements and _calculate_qualities count every planet    *)
(* exactly once: the four element counts add up to the number of planets,   *)
(* and so do the three quality counts; the angles handed in add nothing.    *)
C17_EachPlanetCountedOnce ==
    service.pc = "done" =>
        /\ service.elements.fire + service.elements.earth
             + service.elements.air + service.elements.water = Len(service.planets)
        /\ service.qualities.cardinal + service.qualities.fixed
             + service.qualities.mutable = Len(service.planets)

(* two planets of different elements and qualities have been counted, with *)
(* the ascendant in a third element                                        *)
C17_Witness ==
    /\ service.pc = "done"
    /\ service.planets[1].sign \in fire_signs \cap cardinal_signs
    /\ service.planets[2].sign \in water_signs \cap mutable_signs
    /\ service.ascendant.sign \in earth_signs
    /\ service.elements = [ fire |-> 1, earth |-> 0, air |-> 0, water |-> 1 ]

----------------------------------------------------------------------------
(* The order of scan and fallback in the Placidus branch                   *)

(* C18 as stated: for each of the cusps 11, 12, 3 and 2, the call goes on  *)
(* from the window scan to the next cusp only with a root; a scan that      *)
(* found no sign change is followed by solve_with_fallback before the cusp  *)
(* is left missing for the Equal value.                                    *)
C18_FallbackBeforeEqual ==
    [][ /\ (pc = "dispatch" /\ pc' = "c12") => ~IsNone(c11')
        /\ (pc = "c12" /\ pc' = "c3") => ~IsNone(c12')
        /\ (pc = "c3" /\ pc' = "c2") => ~IsNone(c3')
        /\ (pc = "c2" /\ pc' = "mirror") => ~IsNone(c2') ]_vars

----------------------------------------------------------------------------
(* The secant loop of solve_with_fallback                                  *)

(* the longitude lies on the arc from win_start forward to win_end *)
on_window_arc(lam, cl) ==
    forward_arc(cl.win_start, lam) <= forward_arc(cl.win_start, cl.win_end)

(* C21 as stated: every secant iterate of solve_with_fallback that F_val   *)
(* was evaluated at lies on the arc from win_start to win_end, for every    *)
(* window, those that cross 0/360 degrees included.                         *)
C21_SecantIterateInWindow ==
    (fallback_frame /\ solver.iters >= 1) => on_window_arc(solver.lam1, solver.cl)

----------------------------------------------------------------------------
(* circ_diff called on its own; the frame is the record solver             *)

(* the angles handed to circ_diff: every 22.5 degrees from -360 to 720 *)
CircAngles == { k * 450 - FULL : k \in 0 .. 48 }

CircDiffCall ==
    /\ solver.pc = "idle"
    /\ \E a \in CircAngles, b \in CircAngles :
          solver' = [ pc |-> "circ_diff", a |-> a, b |-> b, d |-> circ_diff(a, b) ]
    /\ UNCHANGED << call_vars, requests, service >>

CircDiffReturn ==
    /\ solver.pc = "circ_diff"
    /\ solver' = NoSolve
    /\ UNCHANGED << call_vars, requests, service >>

CircDiffNext ==
    \/ CircDiffCall
    \/ CircDiffReturn

CircDiffSpec == Init /\ [][CircDiffNext]_vars

(* C22 as stated: circ_diff(a, b) is congruent to a - b modulo 360 and     *)
(* lies in (-180, 180]; for a - b congruent to 180 it is +180.             *)
C22_HalfOpenInterval ==
    solver.pc = "circ_diff" =>
        /\ (solver.d - (solver.a - solver.b)) % FULL = 0
        /\ -HALF < solver.d
        /\ solver.d <= HALF

----------------------------------------------------------------------------
(* The order of the four solves and the windows of cusps 12 and 2          *)

(* position of the first line equal to l in stdout, 0 when there is none *)
printed_at(l) ==
    IF \E i \in 1 .. Len(stdout) : stdout[i] = l
    THEN CHOOSE i \in 1 .. Len(stdout) :
            stdout[i] = l /\ \A j \in 1 .. i - 1 : stdout[j] # l
    ELSE 0

(* C23: cusp 11 is solved before cusp 12 and cusp 3 before cusp 2; cusp 12 *)
(* is searched from the solved cusp 11 (from MC when it is missing) to ASC, *)
(* and cusp 2 from ASC to cusp 3 as it stands after its fallback (to IC     *)
(* when it is missing).                                                    *)
C23_SolveOrderAndWindows ==
    [][ /\ (pc = "c12" /\ pc' = "c3") =>
              /\ printed_at("solve C11") > 0
              /\ c11' = c11
              /\ c12' = solve_lambda_by_OA(1, args.ramc, 1,
                            IF IsNone(c11) THEN normalize_deg(Val(mc_longitude))
                            ELSE Val(c11),
                            normalize_deg(Val(asc_longitude)),
                            InitStep, FALSE, args.latitude)
        /\ (pc = "c3" /\ pc' = "c2") => ~IsNone(c3')
        /\ (pc = "c2" /\ pc' # pc) =>
              /\ printed_at("solve C3") > printed_at("solve C12")
              /\ printed_at("solve C2") = 0
              /\ c3' = c3
              /\ c2' = solve_lambda_by_OA(1, args.ramc + HALF, 1,
                            normalize_deg(Val(asc_longitude)),
                            IF IsNone(c3) THEN normalize_deg(Val(mc_longitude) + HALF)
                            ELSE Val(c3),
                            FineStep, TRUE, args.latitude) ]_vars

(* cusp 12 was found beyond a solved cusp 11, and cusp 2 was searched       *)
(* after the scan of cusp 3 had found no root and its fallback had run      *)
C23_Witness ==
    /\ pc = "mirror"
    /\ ~IsNone(c11) /\ ~IsNone(c12) /\ Val(c12) # Val(c11)
    /\ \E i \in 1 .. Len(stdout) - 1 : stdout[i] = "solve C3" /\ stdout[i + 1] = "NO ROOT"
    /\ ~IsNone(c3)
    /\ printed_at("solve C2") > printed_at("solve C3")

----------------------------------------------------------------------------
(* What solve_with_fallback returns                                        *)

(* F_val is None at every sample the loop took, for both sign options *)
undefined_at_every_sample(f) ==
    \A k \in 0 .. f.guard - 1 : \A s \in { 1, -1 } :
        IsNone(F(normalize_deg(f.cl.win_start + k * f.cl.step), s, f.cl))

(* C24: solve_with_fallback returns None only when F_val is undefined at   *)
(* every dense sample of the window for both sign options; otherwise it     *)
(* returns a longitude in [0,360), whatever the secant loop did.            *)
C24_MissingOnlyWhenUndefined ==
    (fallback_frame /\ solver.pc = "returned") =>
        /\ IsNone(solver.root) <=> undefined_at_every_sample(solver)
        /\ ~IsNone(solver.root) => Val(solver.root) \in 0 .. FULL - 1

(* a fallback that found F_val undefined all over its window and returned  *)
(* None                                                                    *)
C24_Witness ==
    /\ fallback_frame
    /\ solver.pc = "returned"
    /\ solver.guard >= 4
    /\ IsNone(solver.root)

----------------------------------------------------------------------------
(* Requests that carry no 'engine' field                                   *)

(* C25 as stated: a request without an 'engine' field is computed by the   *)
(* engine it would get as the first request of the process, whatever        *)
(* requests were handled before it.                                        *)
C25_DefaultEngineStateless ==
    \A i \in 1 .. Len(requests) :
        (requests[i].pc = "done" /\ requests[i].body_engine = "") =>
            requests[i].engine = engine_of("", "unset")

----------------------------------------------------------------------------
(* The Swiss path statement by statement, with the tzinfo of dt_utc: calls *)
(* with eph and ts passed in.  args.tzinfo is the tzinfo of the argument,   *)
(* args.dt_utc that of the local dt_utc, which the Swiss path rebinds.      *)

FallbackSystems == { "equal", "koch" }
Tzinfos == { "naive", "utc" }

(* calculate_houses(dt_utc, latitude, longitude, eph=eph, ts=ts, system=) *)
CallWithDatetime(system, latitude, ramc, tzinfo) ==
    /\ pc = "idle"
    /\ args' = [ system |-> system, latitude |-> latitude, ramc |-> ramc,
                 tzinfo |-> tzinfo, dt_utc |-> tzinfo ]
    /\ eph' = "loaded"
    /\ pc' = "engine"
    /\ UNCHANGED << requests, solver, service, env_HOUSE_ENGINE, locals, stdout >>

(* import swisseph raises *)
SwissImportFail ==
    /\ pc = "engine"
    /\ engine_is_swiss(env_HOUSE_ENGINE)
    /\ stdout' = Append(stdout, "Swiss engine failed")
    /\ pc' = "load"
    /\ UNCHANGED << requests, solver, service, env_HOUSE_ENGINE, args, eph, locals >>

(* the import succeeds; dt_utc = dt_utc.replace(tzinfo=timezone.utc) or     *)
(* dt_utc.astimezone(timezone.utc)                                          *)
SwissNormalize ==
    /\ pc = "engine"
    /\ engine_is_swiss(env_HOUSE_ENGINE)
    /\ args' = [ args EXCEPT !.dt_utc = "utc" ]
    /\ pc' = "swiss_ephe"
    /\ UNCHANGED << requests, solver, service, env_HOUSE_ENGINE, eph, locals, stdout >>

(* the ephemeris path setup, swe.julday or swe.houses raises (failed), or   *)
(* swe.houses returns and asc_longitude, mc_longitude are bound             *)
SwissHouses(failed) ==
    /\ pc = "swiss_ephe"
    /\ IF failed
       THEN /\ stdout' = Append(stdout, "Swiss engine failed")
            /\ pc' = "load"
            /\ UNCHANGED << asc_longitude, mc_longitude >>
       ELSE /\ asc_longitude' = Some(swe_ascmc(args.ramc, args.latitude)[1] % FULL)
            /\ mc_longitude' = Some(swe_ascmc(args.ramc, args.latitude)[2] % FULL)
            /\ pc' = "swiss_index"
            /\ stdout' = stdout
    /\ UNCHANGED << requests, solver, service, env_HOUSE_ENGINE, args, eph,
                    c11, c12, c3, c2, houses, result, exc >>

(* the loop over cusps[idx]: a tuple of 12 or 13 cusps gives the result, a  *)
(* shorter one raises IndexError                                            *)
SwissIndex(len) ==
    /\ pc = "swiss_index"
    /\ IF len < 12
       THEN /\ stdout' = Append(stdout, "Swiss engine failed")
            /\ pc' = "load"
            /\ result' = result
       ELSE /\ result' = swiss_result(swe_ascmc(args.ramc, args.latitude),
                             swe_houses_cusps(args.ramc, args.latitude,
                                              system_map(args.system), len))
            /\ pc' = "done"
            /\ stdout' = stdout
    /\ UNCHANGED << requests, solver, service, env_HOUSE_ENGINE, args, eph,
                    asc_longitude, mc_longitude, c11, c12, c3, c2, houses, exc >>

(* t = ts.from_datetime(dt_utc): Skyfield raises ValueError for a datetime  *)
(* without tzinfo                                                           *)
FromDatetime ==
    /\ pc = "load"
    /\ IF args.dt_utc = "naive"
       THEN exc' = "ValueError" /\ pc' = "raised"
       ELSE exc' = exc /\ pc' = "angles"
    /\ UNCHANGED << requests, solver, service, env_HOUSE_ENGINE, args, eph,
                    asc_longitude, mc_longitude, c11, c12, c3, c2, houses, result,
                    stdout >>

SwissFallbackNext ==
    \/ \E v \in EngineValues : SetEngine(v)
    \/ \E system \in FallbackSystems, latitude \in PlacidusLatitudes, ramc \in Ramcs,
          tzinfo \in Tzinfos :
          CallWithDatetime(system, latitude, ramc, tzinfo)
    \/ SwissImportFail
    \/ SwissNormalize
    \/ \E failed \in BOOLEAN : SwissHouses(failed)
    \/ \E len \in { 11, 12, 13 } : SwissIndex(len)
    \/ SkipSwiss
    \/ FromDatetime
    \/ ComputeAngles
    \/ EqualHouses
    \/ KochHouses
    \/ BuildResult
    \/ Return

SwissFallbackSpec == Init /\ [][SwissFallbackNext]_vars

(* the Swiss path of the running call has raised *)
swiss_failed == \E i \in 1 .. Len(stdout) : stdout[i] = "Swiss engine failed"

(* what the Skyfield formula path does with the arguments a on its own *)
skyfield_alone(a) ==
    IF a.tzinfo = "naive" THEN [ exc |-> "ValueError", result |-> NoResult ]
    ELSE IF asc_raises(a.ramc, a.latitude)
    THEN [ exc |-> "ZeroDivisionError", result |-> NoResult ]
    ELSE [ exc |-> "", result |-> formula_result(a) ]

(* C26 as stated: when the Swiss path raises, at whatever point, the call   *)
(* ends as the Skyfield formula path ends for the same arguments: it        *)
(* returns that path's result and nothing of the failed Swiss path shows in *)
(* the outcome.                                                             *)
C26_SwissFailureLeavesNoTrace ==
    (swiss_failed /\ pc \in { "done", "raised" }) =>
        [ exc |-> exc, result |-> result ] = skyfield_alone(args)

----------------------------------------------------------------------------
(* lambda_handler from the event to the response, one invocation at a time. *)
(* A headers dict is a set of << name, value >> pairs; the frame of the      *)
(* invocation is the one entry of requests.                                 *)

(* os.environ["CORS_ALLOWED_ORIGINS"] split at the commas; << >> when unset *)
CorsSettings ==
    { << >>,
      << "https://example.com" >>,
      << " https://example.com ", "", "http://localhost:3000" >>,
      << " " >> }

(* os.environ["HoloscopeEnv"]; "unset" when it is not set *)
EnvNames == { "unset", "local", " Local ", "prod" }

RequestOrigins == { "http://localhost:3000", "https://example.com", "https://evil.example", "" }

(* a dict that is not null *)
dict(items) == [ null |-> FALSE, items |-> items ]

(* a name that is null in the event, or not yet bound in the handler *)
no_dict == [ null |-> TRUE, items |-> { } ]

(* event['headers']: null, missing or empty, or with one origin header *)
EventHeaders ==
    { no_dict, dict({ }) }
      \cup { dict({ << name, o >>, << "Accept", "*/*" >> }) :
               name \in { "Origin", "origin" }, o \in RequestOrigins }

EventMethods == { "OPTIONS", "POST", "GET", "null" }
EventPaths == { "/api/v1/holoscope/create", "/api/v1/holoscope/houses", "/" }

(* event['body']: null, text that is not JSON, or a JSON object that is     *)
(* complete, lacks the required fields, has an unreadable datetime, or on    *)
(* which the computation raises                                             *)
EventBodies == { "null", "not json", "complete", "incomplete", "bad datetime", "failing" }

(* str.strip() on the values above *)
strip(text) ==
    CASE text = " https://example.com " -> "https://example.com"
      [] text = " Local " -> "Local"
      [] text = " " -> ""
      [] OTHER -> text

(* str.lower() on the values above *)
lower_name(text) ==
    CASE text = "Local" -> "local"
      [] text = "Origin" -> "origin"
      [] text = "Accept" -> "accept"
      [] OTHER -> text

localhost_origins ==
    { "http://localhost:3000", "http://localhost:5173", "http://localhost:8080",
      "http://127.0.0.1:8080" }

(* allowed_origins of get_cors_headers *)
allowed_origins(environ) ==
    LET env == lower_name(strip(IF environ.HoloscopeEnv = "unset" THEN "dev"
                                ELSE environ.HoloscopeEnv))
        listed == { strip(environ.CORS_ALLOWED_ORIGINS[i]) :
                      i \in 1 .. Len(environ.CORS_ALLOWED_ORIGINS) } \ { "" }
    IN  IF listed = { } /\ env = "local" THEN localhost_origins ELSE listed

(* a variant that allows every origin when nothing is listed *)
get_cors_headers_open(origin, environ) ==
    IF origin \in allowed_origins(environ) \/ allowed_origins(environ) = { }
    THEN { << "Access-Control-Allow-Origin", origin >>,
           << "Access-Control-Allow-Methods", "POST, OPTIONS" >>,
           << "Access-Control-Allow-Headers", "Content-Type, Authorization" >> }
    ELSE { }

get_cors_headers(origin, environ) ==
    IF origin \in allowed_origins(environ)
    THEN { << "Access-Control-Allow-Origin", origin >>,
           << "Access-Control-Allow-Methods", "POST, OPTIONS" >>,
           << "Access-Control-Allow-Headers", "Content-Type, Authorization" >> }
    ELSE { }

(* the Origin header of the event: the value of a key whose lower() is      *)
(* 'origin', None when there is none                                        *)
origin_of(headers) ==
    IF \E h \in headers : lower_name(h[1]) = "origin"
    THEN Some((CHOOSE h \in headers : lower_name(h[1]) = "origin")[2])
    ELSE None

(* {"Content-Type": "application/json"} merged with cors_headers *)
json_headers(cors_headers) == { << "Content-Type", "application/json" >> } \cup cors_headers

response(statusCode, headers, body) ==
    [ statusCode |-> statusCode, headers |-> headers, body |-> body ]

(* the invocation in progress *)
invocation == requests[1]
invoking(at) == Len(requests) = 1 /\ requests[1].pc = at

(* lambda_handler(event, context) is entered *)
Receive ==
    /\ requests = << >>
    /\ \E headers \in EventHeaders, method \in EventMethods, path \in EventPaths,
          body \in EventBodies, cors \in CorsSettings, env \in EnvNames :
          requests' = << [ pc |-> "headers",
                           event |-> [ headers |-> headers, httpMethod |-> method,
                                       path |-> path, body |-> body ],
                           environ |-> [ CORS_ALLOWED_ORIGINS |-> cors,
                                         HoloscopeEnv |-> env ],
                           origin |-> None, cors_headers |-> no_dict,
                           exception |-> "", response |-> None ] >>
    /\ UNCHANGED << call_vars, solver, service >>

(* headers = event.get('headers', {}); for key in headers: ... *)
ReadOrigin ==
    /\ invoking("headers")
    /\ requests' = << IF invocation.event.headers.null
                      THEN [ invocation EXCEPT !.pc = "except", !.exception = "TypeError" ]
                      ELSE [ invocation EXCEPT !.pc = "cors",
                                !.origin = origin_of(invocation.event.headers.items) ] >>
    /\ UNCHANGED << call_vars, solver, service >>

(* cors_headers = get_cors_headers(origin) if origin else {} *)
BindCorsHeaders ==
    /\ invoking("cors")
    /\ requests' = << [ invocation EXCEPT !.pc = "method",
                          !.cors_headers =
                              IF IsNone(invocation.origin) \/ Val(invocation.origin) = ""
                              THEN dict({ })
                              ELSE dict(get_cors_headers(Val(invocation.origin),
                                                         invocation.environ)) ] >>
    /\ UNCHANGED << call_vars, solver, service >>

(* the preflight test and body = json.loads(event.get('body', '{}')) *)
ParseBody ==
    /\ invoking("method")
    /\ requests' = <<
          IF invocation.event.httpMethod = "null"
          THEN [ invocation EXCEPT !.pc = "except", !.exception = "AttributeError" ]
          ELSE IF invocation.event.httpMethod = "OPTIONS"
          THEN [ invocation EXCEPT !.pc = "return",
                    !.response = Some(response(200, invocation.cors_headers.items,
                                               "CORS preflight OK")) ]
          ELSE IF invocation.event.body = "null"
          THEN [ invocation EXCEPT !.pc = "except", !.exception = "TypeError" ]
          ELSE IF invocation.event.body = "not json"
          THEN [ invocation EXCEPT !.pc = "except", !.exception = "JSONDecodeError" ]
          ELSE [ invocation EXCEPT !.pc = "route" ] >>
    /\ UNCHANGED << call_vars, solver, service >>

(* the three branches on path and method *)
Route ==
    /\ invoking("route")
    /\ LET e == invocation.event
           hs == json_headers(invocation.cors_headers.items)
       IN  requests' = <<
              IF e.path = "/api/v1/holoscope/create" /\ e.httpMethod = "POST"
              THEN IF e.body = "complete"
                   THEN [ invocation EXCEPT !.pc = "return",
                             !.response = Some(response(200, hs, "holoscope")) ]
                   ELSE [ invocation EXCEPT !.pc = "except", !.exception = "ValueError" ]
              ELSE IF e.path = "/api/v1/holoscope/houses" /\ e.httpMethod = "POST"
              THEN IF e.body \in { "incomplete", "bad datetime" }
                   THEN [ invocation EXCEPT !.pc = "return",
                             !.response = Some(response(400, hs, "BadRequest")) ]
                   ELSE IF e.body = "failing"
                   THEN [ invocation EXCEPT !.pc = "except",
                             !.exception = "FileNotFoundError" ]
                   ELSE [ invocation EXCEPT !.pc = "return",
                             !.response = Some(response(200, hs, "houses")) ]
              ELSE [ invocation EXCEPT !.pc = "return",
                        !.response = Some(response(404, hs, "NotFoundError")) ] >>
    /\ UNCHANGED << call_vars, solver, service >>

(* except Exception as e: the 500 response is built from cors_headers; the  *)
(* name is unbound when the try block failed before its assignment          *)
Except ==
    /\ invoking("except")
    /\ requests' = <<
          IF invocation.cors_headers.null
          THEN [ invocation EXCEPT !.pc = "raised", !.exception = "UnboundLocalError" ]
          ELSE [ invocation EXCEPT !.pc = "return",
                    !.response = Some(response(500,
                                     json_headers(invocation.cors_headers.items),
                                     "InternalServerError")) ] >>
    /\ UNCHANGED << call_vars, solver, service >>

(* lambda_handler returns its response or raises: the invocation is over *)
Leave ==
    /\ Len(requests) = 1
    /\ requests[1].pc \in { "return", "raised" }
    /\ requests' = << >>
    /\ UNCHANGED << call_vars, solver, service >>

ResponseNext ==
    \/ Receive
    \/ ReadOrigin
    \/ BindCorsHeaders
    \/ ParseBody
    \/ Route
    \/ Except
    \/ Leave

ResponseSpec == Init /\ [][ResponseNext]_vars

(* C27 as stated: lambda_handler never raises; every invocation ends with a *)
(* response that has statusCode, headers and body, and whenever something   *)
(* failed on the way (headers null, body null or not JSON included) the     *)
(* response is a 500.                                                       *)
C27_AlwaysProxyResponse ==
    Len(requests) = 1 =>
        /\ invocation.pc # "raised"
        /\ (invocation.pc = "return" /\ invocation.exception # "") =>
               Val(invocation.response).statusCode = 500

(* the CORS headers of a headers dict *)
cors_of(headers) ==
    { h \in headers : h[1] \in { "Access-Control-Allow-Origin",
                                 "Access-Control-Allow-Methods",
                                 "Access-Control-Allow-Headers" } }

(* C28: a response carries Access-Control-Allow-Origin only when the Origin *)
(* header of the request is in the allow-list, and then with exactly that    *)
(* Origin as its value; for any other or absent Origin the response has no   *)
(* CORS header, whatever the route and the status code.                      *)
C28_CorsOnlyForAllowedOrigin ==
    (Len(requests) = 1 /\ invocation.pc = "return") =>
        LET sent == origin_of(invocation.event.headers.items)
            allowed == ~IsNone(sent)
                         /\ Val(sent) \in allowed_origins(invocation.environ)
            headers == Val(invocation.response).headers
        IN  /\ \A h \in headers :
                  h[1] = "Access-Control-Allow-Origin" => (allowed /\ h[2] = Val(sent))
            /\ ~allowed => cors_of(headers) = { }

(* a 500 response that carries the allowed origin, listed with blanks       *)
(* around it                                                                *)
C28_Witness ==
    /\ Len(requests) = 1
    /\ invocation.pc = "return"
    /\ Val(invocation.response).statusCode = 500
    /\ invocation.environ.CORS_ALLOWED_ORIGINS
           = << " https://example.com ", "", "http://localhost:3000" >>
    /\ << "Access-Control-Allow-Origin", "https://example.com" >>
           \in Val(invocation.response).headers

----------------------------------------------------------------------------
(* HoloscopeService.create from the request to the coordinates it hands to  *)
(* calculate_planets.  A key of the location dict holds None when the dict   *)
(* lacks it.  The frame is the record service.                              *)

LatitudeValues == { None, Some(0), Some(35) }
LongitudeValues == { None, Some(139) }
TzValues == { None, Some("UTC"), Some("Asia/Tokyo") }

(* location.get("name", ""): none, a name of city_db, a name not in it *)
PlaceNames == { "", "known", "unknown" }

(* the entry of city_db for the known name *)
city_info == [ lat |-> 43, lon |-> 141, timezone |-> "Asia/Tokyo" ]

(* x or y on values of location.get: None and 0.0 are falsy *)
falsy(x) == IsNone(x) \/ Val(x) = 0
either(x, y) == IF falsy(x) THEN y ELSE x

(* the same on the time zone names: None and "" are falsy *)
falsy_text(x) == IsNone(x) \/ Val(x) = ""
either_text(x, y) == IF falsy_text(x) THEN y ELSE x

(* create(req): the fields of req["location"] are read *)
ParseLocation ==
    /\ service.pc = "idle"
    /\ \E latitude \in LatitudeValues, lat \in LatitudeValues,
          longitude \in LongitudeValues, lon \in LongitudeValues,
          tz \in TzValues, timezone \in TzValues, name \in PlaceNames :
          service' = [ pc |-> "city",
                       req |-> [ latitude |-> latitude, longitude |-> longitude,
                                 lat |-> lat, lon |-> lon, tz |-> tz,
                                 timezone |-> timezone, name |-> name ],
                       location |-> [ latitude |-> latitude, longitude |-> longitude,
                                      lat |-> lat, lon |-> lon, tz |-> tz,
                                      timezone |-> timezone, name |-> name ],
                       latitude |-> either(latitude, lat),
                       longitude |-> either(longitude, lon),
                       tz |-> either_text(tz, timezone),
                       exception |-> "", used |-> None ]
    /\ UNCHANGED << call_vars, requests, solver >>

(* if (not latitude or not longitude or not tz) and name: the city is       *)
(* looked up and written into location                                      *)
FetchCity ==
    /\ service.pc = "city"
    /\ service' =
          IF (falsy(service.latitude) \/ falsy(service.longitude) \/ falsy_text(service.tz))
               /\ service.location.name # ""
          THEN IF service.location.name = "known"
               THEN [ service EXCEPT !.pc = "coordinates",
                         !.latitude = Some(city_info.lat),
                         !.longitude = Some(city_info.lon),
                         !.tz = Some(city_info.timezone),
                         !.location.latitude = Some(city_info.lat),
                         !.location.longitude = Some(city_info.lon),
                         !.location.tz = Some(city_info.timezone) ]
               ELSE [ service EXCEPT !.pc = "raised", !.exception = "ValueError" ]
          ELSE [ service EXCEPT !.pc = "coordinates" ]
    /\ UNCHANGED << call_vars, requests, solver >>

(* calculate_planets(dt_utc, float(location["latitude"]),                    *)
(* float(location["longitude"]), ...): the keys are read from location       *)
coordinates_read(f) ==
    IF IsNone(f.location.latitude) \/ IsNone(f.location.longitude)
    THEN [ f EXCEPT !.pc = "raised", !.exception = "KeyError" ]
    ELSE [ f EXCEPT !.pc = "planets",
              !.used = Some(<< Val(f.location.latitude), Val(f.location.longitude) >>) ]

ReadCoordinates ==
    /\ service.pc = "coordinates"
    /\ service' = coordinates_read(service)
    /\ UNCHANGED << call_vars, requests, solver >>

(* create goes on to the planets, or the exception leaves it *)
CreateLeave ==
    /\ service.pc \in { "planets", "raised" }
    /\ "req" \in DOMAIN service
    /\ service' = NoService
    /\ UNCHANGED << call_vars, requests, solver >>

ParseNext ==
    \/ ParseLocation
    \/ FetchCity
    \/ ReadCoordinates
    \/ CreateLeave

ParseSpec == Init /\ [][ParseNext]_vars

(* a request that supplies lat, lon and a time zone, and no latitude or      *)
(* longitude key                                                            *)
short_keys(req) ==
    /\ ~IsNone(req.lat) /\ ~IsNone(req.lon)
    /\ IsNone(req.latitude) /\ IsNone(req.longitude)
    /\ ~IsNone(req.tz) \/ ~IsNone(req.timezone)

(* C29 as stated: a request that supplies lat, lon and a time zone does not *)
(* fail and is computed with exactly those coordinates.                      *)
C29_ShortKeysAccepted ==
    (service.pc \in { "planets", "raised" } /\ "req" \in DOMAIN service
        /\ short_keys(service.req)) =>
        /\ service.pc = "planets"
        /\ service.used = Some(<< Val(service.req.lat), Val(service.req.lon) >>)

----------------------------------------------------------------------------
(* calculate_planets: the retrograde flag of one planet.  The ephemeris is  *)
(* a planet moving at a constant rate of ticks per day from its longitude   *)
(* at the start of the year; a date is a month and a day of January or      *)
(* February.  The frame is the record service.                              *)

Dates == [ month : { 1, 2 }, day : { 1, 2, 15 } ]
StartLongitudes == { 0, 10, HALF, FULL - 10 }
DailyMotions == { -20, -1, 0, 1, 20 }

(* the day of the year of a date *)
ordinal(d) == (d.month - 1) * 31 + d.day

(* frame_latlon(ecliptic_frame)[1].degrees % 360 on the given day *)
longitude_on(planet, n) == (planet.start + planet.rate * n) % FULL

(* dt_utc.replace(day=max(1, dt_utc.day-1)) *)
replace_day(d) == [ d EXCEPT !.day = IF d.day - 1 > 1 THEN d.day - 1 ELSE 1 ]

(* calculate_planets(dt_utc, ...) reaches a planet of planet_map *)
PlanetCall ==
    /\ service.pc = "idle"
    /\ \E d \in Dates, start \in StartLongitudes, rate \in DailyMotions :
          service' = [ pc |-> "planet", dt_utc |-> d,
                       planet |-> [ start |-> start, rate |-> rate ],
                       lon |-> None, lon_prev |-> None, retrograde |-> None ]
    /\ UNCHANGED << call_vars, requests, solver >>

(* lon, t_prev, lon_prev and retrograde of the loop body *)
Retrograde ==
    /\ service.pc = "planet"
    /\ LET lon == longitude_on(service.planet, ordinal(service.dt_utc))
           t_prev == replace_day(service.dt_utc)
           lon_prev == longitude_on(service.planet, ordinal(t_prev))
       IN service' = [ service EXCEPT !.pc = "appended",
                          !.lon = Some(lon), !.lon_prev = Some(lon_prev),
                          !.retrograde = Some(lon < lon_prev) ]
    /\ UNCHANGED << call_vars, requests, solver >>

(* the entry is appended and the function returns *)
PlanetReturn ==
    /\ service.pc = "appended"
    /\ service' = NoService
    /\ UNCHANGED << call_vars, requests, solver >>

RetrogradeNext ==
    \/ PlanetCall
    \/ Retrograde
    \/ PlanetReturn

RetrogradeSpec == Init /\ [][RetrogradeNext]_vars

(* C30 as stated: on every date, the first day of a month included, the     *)
(* retrograde flag is the comparison of the longitude with the longitude    *)
(* exactly one day earlier.                                                 *)
C30_ComparedWithOneDayEarlier ==
    service.pc = "appended" =>
        Val(service.retrograde) =
            (longitude_on(service.planet, ordinal(service.dt_utc))
                < longitude_on(service.planet, ordinal(service.dt_utc) - 1))

====
